---- MODULE Spec2Model ----
(***************************************************************************)
(* The browser test runner of automate_qa_backend                          *)
(* (src/lambda/test-runner/index.ts): the agent loop of `handler`, the     *)
(* oracle client `getNextStep`, the locator resolver `findBestLocator`     *)
(* and the step executor `executeStep`.                                    *)
(*                                                                         *)
(* Strings the code inspects character by character (targets, attribute    *)
(* values, visible text) are sequences of one-character strings; strings   *)
(* the code only copies or compares whole are TLA+ strings.                *)
(***************************************************************************)
EXTENDS Integers, Sequences, FiniteSets, TLC

VARIABLES
    pc,            \* position of the running invocation in handler / the driver harness
    event,         \* the invocation's input, then the fields handler took from it: which are present
    browser,       \* "none" | "open" | "closed": the `browser` handle of handler
    page,          \* the DOM of the page under test: a sequence of elements in document order
    loopCount,     \* handler: loopCount
    history,       \* handler: history
    simplifiedHtml,\* handler: the snapshot of the current iteration
    attempt,       \* getNextStep: attempt
    step,          \* handler: step, the decision of the current iteration
    trace,         \* the page interactions attempted by the current iteration's executeStep
    testResult,    \* handler: testResult
    finalMessage,  \* handler: finalMessage
    reply,         \* getNextStep: how the last call of the text-generation service ended
    error,         \* the message of the exception on its way to the catch block of handler
    db,            \* the run's record in the TestRuns table
    script,        \* the decisions the oracle is known to give next (empty: any decision)
    faults,        \* whether calls into the browser, the bucket and the table may raise
    out,           \* the value returned by the driver function last applied (driver harness)
    host,          \* the execution host: its process table and the entries of /tmp
    prompt         \* getNextStep: what the prompt of the running call embeds

vars == << pc, event, browser, page, loopCount, history, simplifiedHtml, attempt,
           step, trace, testResult, finalMessage, reply, error, db, script, faults, out,
           host, prompt >>

----------------------------------------------------------------------------
(* Bounds of the model *)

\* the longest page (in elements) the driver harness draws
MaxPageLen == 2
\* the number of click/fill/press steps the oracle may ask for in one run
MaxSteps == 2
\* the longest response text (in tokens) of the text-generation service
MaxTextLen == 5

(* Program constants *)
MAX_LOOPS == 20
MaxAttempts == 3
TextCap == 50

----------------------------------------------------------------------------
(* Character strings *)

E == << >>
sUser == << "u", "s", "e", "r" >>
sPass == << "p", "a", "s", "s" >>
sPassword == << "p", "w" >>
sSignIn == << "S", "i", "g", "n", " ", "I", "n" >>
sGhost == << "g", "h", "o", "s", "t" >>
sTest == << "t", "e", "s", "t" >>
sOld == << "o", "l", "d" >>
sOk == << "o", "k" >>
sOK == << "O", "K" >>
sKG == << "k", " ", "g" >>
sOkGo == << "O", "K", " ", "g", "o" >>
sPadded == << " ", "o", "k", " ", " ", "g", "o", " " >>
sLong == [i \in 1..(TextCap + 2) |-> IF i % 2 = 1 THEN "o" ELSE "k"]

\* the "i" flag of the RegExp built from the target
Lower(c) ==
    CASE c = "S" -> "s"
      [] c = "I" -> "i"
      [] c = "O" -> "o"
      [] c = "K" -> "k"
      [] OTHER -> c

LowerStr(s) == [i \in 1..Len(s) |-> Lower(s[i])]

\* regex.test(s) for a target without regular-expression metacharacters:
\* a case-insensitive search of the target anywhere in s; an absent
\* attribute (the empty string) offers nothing to match
RegexTest(target, s) ==
    /\ s # E
    /\ \E i \in 1..(Len(s) - Len(target) + 1) :
          SubSeq(LowerStr(s), i, i + Len(target) - 1) = LowerStr(target)

IdentChars == { "u", "s", "e", "r", "p", "a", "g", "h", "o", "t", "k", "i", "n", "w",
                "S", "I", "O", "K", "l", "d", "_", "-" }

\* faulty variant of IsBareIdentifier: the pattern lacks its `+`
IsBareIdentifierOneChar(target) ==
    /\ Len(target) = 1
    /\ target[1] \in IdentChars

\* target.match(/^[a-zA-Z0-9_-]+$/)
IsBareIdentifier(target) ==
    /\ Len(target) > 0
    /\ \A i \in 1..Len(target) : target[i] \in IdentChars

Min(S) == CHOOSE x \in S : \A y \in S : x <= y

----------------------------------------------------------------------------
(* The page under test *)

\* An element of the DOM.  style is the element's own CSS, anc the CSS of
\* the container it sits in; value is the current value of a form control.
Element(tag, id, name, type, text, placeholder, label, value, style, anc) ==
    [tag |-> tag, id |-> id, name |-> name, type |-> type, text |-> text,
     placeholder |-> placeholder, label |-> label, value |-> value,
     style |-> style, anc |-> anc]

\* window.getComputedStyle(element): display and opacity are the element's
\* own (neither is inherited), visibility is inherited from the container
ComputedStyle(el) ==
    [display    |-> IF el.style = "displayNone" THEN "none" ELSE "block",
     visibility |-> IF el.style = "hidden" \/ el.anc = "hidden" THEN "hidden" ELSE "visible",
     opacity    |-> IF el.style = "opacity0" THEN "0" ELSE "1"]

\* what a user sees: an element is invisible when it or its container is
\* display:none, visibility:hidden or fully transparent
Invisible(el) == el.style # "visible" \/ el.anc # "visible"

\* document.querySelectorAll("button, a, input, select, textarea, [role=...]")
Interactive(el) == el.tag \in { "button", "a", "input", "select", "textarea" }

\* innerText.replace(/\s+/g, " "): runs of white space become one space
RECURSIVE CollapseSpaces(_)
CollapseSpaces(s) ==
    IF Len(s) = 0 THEN s
    ELSE IF Len(s) >= 2 /\ s[1] = " " /\ s[2] = " " THEN CollapseSpaces(Tail(s))
    ELSE << s[1] >> \o CollapseSpaces(Tail(s))

\* .trim() of a string whose white-space runs are single spaces
Trim(s) ==
    LET a == IF Len(s) > 0 /\ s[1] = " " THEN Tail(s) ELSE s
    IN  IF Len(a) > 0 /\ a[Len(a)] = " " THEN SubSeq(a, 1, Len(a) - 1) ELSE a

\* .substring(0, 50)
Truncate(s) == SubSeq(s, 1, IF Len(s) < TextCap THEN Len(s) ELSE TextCap)

VisibleText(el) == Truncate(Trim(CollapseSpaces(el.text)))

\* one attribute of a line, left out when empty
Attr(field, v) == IF v = E THEN << >> ELSE << << field, v >> >>

\* faulty variant of DescLine: the placeholder is written before the text
DescLinePlaceholderFirst(el) ==
    [tag |-> el.tag,
     attrs |-> Attr("id", el.id) \o Attr("name", el.name) \o Attr("type", el.type)
               \o Attr("placeholder", el.placeholder) \o Attr("text", VisibleText(el))
               \o Attr("value", el.value)]

\* the descriptive line of one element: the tag, then id, name, type, text,
\* placeholder, value
DescLine(el) ==
    [tag |-> el.tag,
     attrs |-> Attr("id", el.id) \o Attr("name", el.name) \o Attr("type", el.type)
               \o Attr("text", VisibleText(el)) \o Attr("placeholder", el.placeholder)
               \o Attr("value", el.value)]

\* the elements a snapshot skips (the callback returns null)
SnapshotSkips(el) ==
    LET style == ComputedStyle(el)
    IN  style.display = "none" \/ style.visibility = "hidden" \/ style.opacity = "0"

\* the page.evaluate callback of handler: one line per selected element
\* that passes the style test, in document order
RECURSIVE SnapshotFrom(_, _)
SnapshotFrom(p, i) ==
    IF i > Len(p) THEN << >>
    ELSE IF Interactive(p[i]) /\ ~SnapshotSkips(p[i])
         THEN << [index |-> i, line |-> DescLine(p[i])] >> \o SnapshotFrom(p, i + 1)
         ELSE SnapshotFrom(p, i + 1)

Snapshot(p) == SnapshotFrom(p, 1)

----------------------------------------------------------------------------
(* findBestLocator *)

Role(el) ==
    CASE el.tag = "button" -> "button"
      [] el.tag = "a" -> "link"
      [] OTHER -> "generic"

\* the accessible name of a button or link: its aria-label, else its text
AccessibleName(el) == IF el.label # E THEN el.label ELSE el.text

\* elements outside the accessibility tree, which getByRole leaves out
AriaHidden(el) ==
    el.style \in { "displayNone", "hidden" } \/ el.anc \in { "displayNone", "hidden" }

ById(p, target) == { i \in 1..Len(p) : p[i].id # E /\ p[i].id = target }
ByName(p, target) == { i \in 1..Len(p) : p[i].name # E /\ p[i].name = target }
ByPlaceholder(p, target) == { i \in 1..Len(p) : RegexTest(target, p[i].placeholder) }
ByLabel(p, target) == { i \in 1..Len(p) : RegexTest(target, p[i].label) }
ByRole(p, role, target) ==
    { i \in 1..Len(p) : /\ Role(p[i]) = role
                        /\ ~AriaHidden(p[i])
                        /\ RegexTest(target, AccessibleName(p[i])) }
ByText(p, target) == { i \in 1..Len(p) : RegexTest(target, p[i].text) }

\* locator.first() as the index of the element, 0 for a locator of no element
First(S) == IF S = {} THEN 0 ELSE Min(S)

\* faulty variant of findBestLocator: the label is tried before the placeholder
findBestLocatorLabelFirst(p, target) ==
    IF IsBareIdentifier(target) /\ ById(p, target) # {} THEN First(ById(p, target))
    ELSE IF IsBareIdentifier(target) /\ ByName(p, target) # {} THEN First(ByName(p, target))
    ELSE IF ByLabel(p, target) # {} THEN First(ByLabel(p, target))
    ELSE IF ByPlaceholder(p, target) # {} THEN First(ByPlaceholder(p, target))
    ELSE IF ByRole(p, "button", target) # {} THEN First(ByRole(p, "button", target))
    ELSE IF ByRole(p, "link", target) # {} THEN First(ByRole(p, "link", target))
    ELSE First(ByText(p, target))

findBestLocator(p, target) ==
    IF IsBareIdentifier(target) /\ ById(p, target) # {} THEN First(ById(p, target))
    ELSE IF IsBareIdentifier(target) /\ ByName(p, target) # {} THEN First(ByName(p, target))
    ELSE IF ByPlaceholder(p, target) # {} THEN First(ByPlaceholder(p, target))
    ELSE IF ByLabel(p, target) # {} THEN First(ByLabel(p, target))
    ELSE IF ByRole(p, "button", target) # {} THEN First(ByRole(p, "button", target))
    ELSE IF ByRole(p, "link", target) # {} THEN First(ByRole(p, "link", target))
    ELSE First(ByText(p, target))

----------------------------------------------------------------------------
(* executeStep *)

\* a decision as parsed from the oracle's reply; a field the reply lacks
\* is empty (action "" is a reply without an action)
Decision(action, target, value, key, success, desc) ==
    [action |-> action, target |-> target, value |-> value, key |-> key,
     success |-> success, desc |-> desc]

NoStep == Decision("null", E, E, "", FALSE, "")

\* which calls into the browser raise during one executeStep
Envs == [t1 : BOOLEAN, t2 : BOOLEAN, t3 : BOOLEAN, post : BOOLEAN, key : BOOLEAN]

SetValue(p, i, v) == [p EXCEPT ![i].value = v]

\* faulty variant of ExecClick: the count of the locator is not tested, so
\* the three click strategies run (and raise) on a locator of no element
ExecClickUnchecked(p, st, env) ==
    LET loc == findBestLocator(p, st.target)
    IN  IF loc = 0
        THEN [page |-> p, raised |-> TRUE, trace |-> << "click", "forceClick", "jsClick" >>]
        ELSE IF ~env.t1 THEN [page |-> p, raised |-> FALSE, trace |-> << "click" >>]
        ELSE IF ~env.t2 THEN [page |-> p, raised |-> FALSE,
                              trace |-> << "click", "forceClick" >>]
        ELSE [page |-> p, raised |-> env.t3,
              trace |-> << "click", "forceClick", "jsClick" >>]

\* faulty variant of ExecClick: the three strategies are all run, whatever
\* the earlier ones did
ExecClickAll(p, st, env) ==
    LET loc == findBestLocator(p, st.target)
    IN  IF loc = 0 THEN [page |-> p, raised |-> TRUE, trace |-> << >>]
        ELSE [page |-> p, raised |-> env.t3,
              trace |-> << "click", "forceClick", "jsClick" >>]

\* the click branch: ordinary click, forced click, script-level click
ExecClick(p, st, env) ==
    LET loc == findBestLocator(p, st.target)
    IN  IF loc = 0 THEN [page |-> p, raised |-> TRUE, trace |-> << >>]
        ELSE IF ~env.t1 THEN [page |-> p, raised |-> FALSE, trace |-> << "click" >>]
        ELSE IF ~env.t2 THEN [page |-> p, raised |-> FALSE,
                              trace |-> << "click", "forceClick" >>]
        ELSE [page |-> p, raised |-> env.t3,
              trace |-> << "click", "forceClick", "jsClick" >>]

\* the three fill strategies: the strategies tried and whether all raised
FillTiers(env) ==
    IF ~env.t1 THEN [raised |-> FALSE, trace |-> << "fill" >>]
    ELSE IF ~env.t2 THEN [raised |-> FALSE, trace |-> << "fill", "forceFill" >>]
    ELSE [raised |-> env.t3, trace |-> << "fill", "forceFill", "jsFill" >>]

\* faulty variant of FilledPage: the text is typed after the old value
FilledPageAppend(p, loc, v) == SetValue(p, loc, p[loc].value \o v)

\* the value of the input after the strategy that succeeded
FilledPage(p, loc, v) == SetValue(p, loc, v)

\* faulty variant of ExecFill: Tab is pressed before the input event
ExecFillTabFirst(p, st, env) ==
    LET loc == findBestLocator(p, st.target)
        tiers == FillTiers(env)
    IN  IF loc = 0 THEN [page |-> p, raised |-> TRUE, trace |-> << >>]
        ELSE IF tiers.raised THEN [page |-> p, raised |-> TRUE, trace |-> tiers.trace]
        ELSE IF env.key
             THEN [page |-> FilledPage(p, loc, st.value), raised |-> TRUE,
                   trace |-> tiers.trace \o << "Tab" >>]
             ELSE [page |-> FilledPage(p, loc, st.value), raised |-> env.post,
                   trace |-> tiers.trace \o << "Tab", "inputEvent" >>]

\* the fill branch, with the input event and the Tab key that follow
ExecFill(p, st, env) ==
    LET loc == findBestLocator(p, st.target)
        tiers == FillTiers(env)
    IN  IF loc = 0 THEN [page |-> p, raised |-> TRUE, trace |-> << >>]
        ELSE IF tiers.raised THEN [page |-> p, raised |-> TRUE, trace |-> tiers.trace]
        ELSE IF env.post
             THEN [page |-> FilledPage(p, loc, st.value), raised |-> TRUE,
                   trace |-> tiers.trace \o << "inputEvent" >>]
             ELSE [page |-> FilledPage(p, loc, st.value), raised |-> env.key,
                   trace |-> tiers.trace \o << "inputEvent", "Tab" >>]

\* faulty variant of executeStep: an action it does not know is a click
executeStepDefaultClick(p, st, env) ==
    IF st.action = "fill" THEN ExecFill(p, st, env)
    ELSE IF st.action = "press"
         THEN [page |-> p, raised |-> env.key, trace |-> << "press" >>]
    ELSE ExecClick(p, st, env)

\* lines 282-324: executeStep; an action that is none of the three does nothing
executeStep(p, st, env) ==
    IF st.action = "click" THEN ExecClick(p, st, env)
    ELSE IF st.action = "fill" THEN ExecFill(p, st, env)
    ELSE IF st.action = "press"
         THEN [page |-> p, raised |-> env.key, trace |-> << "press" >>]
    ELSE [page |-> p, raised |-> FALSE, trace |-> << >>]

----------------------------------------------------------------------------
(* The pages and decisions of the runs explored *)

Input(id, name, type, placeholder, label, value, style, anc) ==
    Element("input", id, name, type, E, placeholder, label, value, style, anc)

\* a login form: a heading, a user field, a password field, a hidden
\* field and the button
LoginPage ==
    << Element("div", E, E, E, sSignIn, E, E, E, "visible", "visible"),
       Input(E, sUser, E, E, E, E, "visible", "visible"),
       Input(E, sPass, sPassword, E, E, E, "visible", "visible"),
       Input(E, sTest, E, E, E, sOld, "displayNone", "visible"),
       Element("button", E, E, E, sSignIn, E, E, E, "visible", "visible") >>

\* the same form with the fields told apart by id, placeholder and label
LoginPages ==
    { LoginPage,
      << Input(sUser, E, E, E, E, E, "visible", "visible"),
         Input(sPass, E, sPassword, E, E, E, "visible", "visible"),
         Element("button", E, E, E, sSignIn, E, E, E, "visible", "visible") >>,
      << Input(E, E, E, sUser, E, E, "visible", "visible"),
         Input(E, E, sPassword, E, sPass, sOld, "visible", "visible"),
         Element("a", E, E, E, sSignIn, E, E, E, "visible", "visible") >>,
      << Element("button", E, E, E, E, E, sSignIn, E, "visible", "visible"),
         Input(E, sPass, sPassword, E, E, E, "visible", "visible"),
         Input(sGhost, sUser, E, E, E, sOld, "visible", "visible") >> }

Finish(success, desc) == Decision("finish", E, E, "", success, desc)
Click(target) == Decision("click", target, E, "", FALSE, "")
Fill(target, value) == Decision("fill", target, value, "", FALSE, "")
Press(key) == Decision("press", E, E, key, FALSE, "")

\* decisions that end the loop or leave the page alone
QuietDecisions ==
    { Finish(TRUE, "goal reached"), Finish(FALSE, "goal not reached"),
      Finish(FALSE, ""),
      Decision("wait", E, E, "", FALSE, ""),
      Decision("", E, E, "", FALSE, "") }

\* decisions handed to executeStep
StepDecisions ==
    { Click(sSignIn), Click(sGhost), Fill(sUser, sTest), Fill(sGhost, sTest),
      Press("Enter"), Decision("hover", sUser, E, "", FALSE, "") }

\* the oracle sequence of the login scenario
LoginScript ==
    << Fill(sUser, sTest), Fill(sPass, sTest), Click(sSignIn),
       Finish(TRUE, "goal reached") >>

\* an oracle sequence that leaves more entries than the prompt holds
LongScript ==
    << Fill(sUser, sTest), Fill(sPass, sTest), Click(sGhost), Press("Enter"),
       Decision("wait", E, E, "", FALSE, ""), Click(sSignIn), Fill(sGhost, sTest),
       Decision("hover", sUser, E, "", FALSE, ""), Finish(TRUE, "goal reached") >>

\* what the oracle may answer now
Offered ==
    IF script # << >> THEN { Head(script) }
    ELSE IF Len(history) < MaxSteps THEN QuietDecisions \cup StepDecisions
    ELSE QuietDecisions

NoFaults == [t1 |-> FALSE, t2 |-> FALSE, t3 |-> FALSE, post |-> FALSE, key |-> FALSE]

\* how one awaited call may end
Outcomes == IF faults THEN { "ok", "raise" } ELSE { "ok" }

Events == [url : BOOLEAN, instructions : BOOLEAN, outcome : BOOLEAN, testId : BOOLEAN]

FullEvent == [url |-> TRUE, instructions |-> TRUE, outcome |-> TRUE, testId |-> TRUE]

\* the record startTestRun created for the run
CreatedRecord ==
    [status |-> "RUNNING", result |-> "", error |-> "", history |-> << >>,
     screenshot |-> FALSE, shape |-> "created", writes |-> 0]

----------------------------------------------------------------------------
(* cleanupEnvironment *)

sNode == << "n", "o", "d", "e" >>
sChromium == << "c", "h", "r", "o", "m", "i", "u", "m" >>
sHeadlessShell ==
    << "h", "e", "a", "d", "l", "e", "s", "s", "_", "s", "h", "e", "l", "l" >>
sPng == << ".", "p", "n", "g" >>
sPlaywright == << "p", "l", "a", "y", "w", "r", "i", "g", "h", "t" >>
sCore == << "c", "o", "r", "e", "." >>
sNotes == << "n", "o", "t", "e", "s" >>

\* String.prototype.includes, startsWith and endsWith
Includes(s, w) == \E i \in 1..(Len(s) - Len(w) + 1) : SubSeq(s, i, i + Len(w) - 1) = w
StartsWith(s, w) == Len(s) >= Len(w) /\ SubSeq(s, 1, Len(w)) = w
EndsWith(s, w) == Len(s) >= Len(w) /\ SubSeq(s, Len(s) - Len(w) + 1, Len(s)) = w

\* one entry of /proc: the pid, the command line, whose process it is
\* ("self", "orphan" of an earlier run, "run" of another live invocation,
\* "system") and whether process.kill on it succeeds
Proc(pid, cmdline, owner, perm) ==
    [pid |-> pid, cmdline |-> cmdline, owner |-> owner, perm |-> perm]

\* process.pid of the invocation's own Node process
SelfPid == 8

\* lines 35-37: the processes cleanupEnvironment sends SIGKILL to
Targeted(h) ==
    IF h.hasProc
    THEN { p \in h.procs : /\ (Includes(p.cmdline, sChromium)
                                 \/ Includes(p.cmdline, sHeadlessShell))
                           /\ p.pid # h.self }
    ELSE {}

\* one entry of /tmp: its name and whose it is ("orphan" of an earlier run,
\* "run" of another live invocation, "system")
File(name, owner) == [name |-> name, owner |-> owner]

\* lines 58-62: the names cleanupEnvironment removes from /tmp
Stale(f) == EndsWith(f, sPng) \/ StartsWith(f, sPlaywright) \/ StartsWith(f, sCore)

\* faulty variant of cleanupEnvironment: /tmp is left alone
cleanupEnvironmentProcsOnly(h) ==
    [h EXCEPT !.procs = { p \in @ : ~(p \in Targeted(h) /\ p.perm) }]

\* faulty variant of cleanupEnvironment: the loop over /proc stops after
\* the first process it kills
cleanupEnvironmentOneKill(h) ==
    LET K == { p \in Targeted(h) : p.perm }
    IN  [h EXCEPT !.procs = { p \in @ : ~(p \in K /\ \A q \in K : p.pid <= q.pid) },
                  !.tmp = { f \in @ : ~Stale(f.name) }]

\* lines 23-71: the host after cleanupEnvironment; a kill that raises is
\* swallowed at line 43 and leaves the process
cleanupEnvironment(h) ==
    [h EXCEPT !.procs = { p \in @ : ~(p \in Targeted(h) /\ p.perm) },
              !.tmp = { f \in @ : ~Stale(f.name) }]

\* a warm host an earlier run left without closing its browser
ZombieHost ==
    [self |-> SelfPid, hasProc |-> TRUE,
     procs |-> { Proc(SelfPid, sNode, "self", TRUE),
                 Proc(SelfPid + 3, sChromium, "orphan", TRUE),
                 Proc(SelfPid + 4, sHeadlessShell \o sNotes, "orphan", TRUE) },
     tmp |-> { File(sNotes \o sPng, "orphan"), File(sPlaywright \o sNotes, "orphan"),
               File(sCore \o sNode, "orphan"), File(sNotes, "system") }]

\* the processes and the entries of /tmp a host may hold besides the
\* invocation's own process: left by an earlier run, belonging to another
\* invocation that is running, or unrelated
OtherProcs ==
    { Proc(SelfPid + 3, sChromium, "orphan", TRUE),
      Proc(SelfPid + 4, sHeadlessShell \o sNotes, "orphan", FALSE),
      Proc(SelfPid + 5, sChromium \o sNotes, "run", TRUE),
      Proc(SelfPid + 6, sNotes, "system", TRUE) }

SelfProcs ==
    { Proc(SelfPid, sNode, "self", TRUE), Proc(SelfPid, sNode \o sChromium, "self", TRUE) }

TmpEntries ==
    { File(sNotes \o sPng, "orphan"), File(sPlaywright \o sNotes, "orphan"),
      File(sPlaywright \o sNode, "run"), File(sCore \o sNode, "orphan"),
      File(sNotes, "system") }

Hosts ==
    { [self |-> SelfPid, hasProc |-> hp, procs |-> { me } \cup ps, tmp |-> fs] :
        hp \in BOOLEAN, me \in SelfProcs, ps \in SUBSET OtherProcs,
        fs \in SUBSET TmpEntries }

----------------------------------------------------------------------------
(* handler *)

\* faulty variant of PromptHistory: the oldest entries are kept
PromptHistoryOldest(h) == SubSeq(h, 1, IF Len(h) > 5 THEN 5 ELSE Len(h))

\* line 341: history.slice(-5), the entries put into the prompt
PromptHistory(h) == SubSeq(h, IF Len(h) > 5 THEN Len(h) - 4 ELSE 1, Len(h))

\* lines 337-342: what the prompt embeds of the arguments of getNextStep;
\* the entries are joined with " -> " in their order
Prompt(goal, h, htmlConfig) ==
    [goal |-> goal, history |-> PromptHistory(h), html |-> htmlConfig]

NoPrompt == [goal |-> FALSE, history |-> << >>, html |-> << >>]

\* the variables declared inside the try block, outside their scope
LocalsGone ==
    /\ loopCount' = 0
    /\ history' = << >>
    /\ simplifiedHtml' = << >>
    /\ attempt' = 0
    /\ step' = NoStep
    /\ trace' = << >>
    /\ testResult' = ""
    /\ finalMessage' = ""
    /\ reply' = "none"
    /\ prompt' = NoPrompt

\* an exception leaves the try block for the catch block
Throw(msg) ==
    /\ pc' = "crash"
    /\ error' = msg
    /\ LocalsGone

\* before handler is entered: no browser, no local variable set, the
\* record as startTestRun created it
InitLocals ==
    /\ pc = "start"
    /\ browser = "none"
    /\ loopCount = 0
    /\ history = << >>
    /\ simplifiedHtml = << >>
    /\ attempt = 0
    /\ step = NoStep
    /\ trace = << >>
    /\ testResult = ""
    /\ finalMessage = ""
    /\ reply = "none"
    /\ error = ""
    /\ db = CreatedRecord
    /\ prompt = NoPrompt

InitCommon ==
    /\ InitLocals
    /\ out = [op |-> "none"]

Init ==
    /\ InitCommon
    /\ event \in Events
    /\ page = LoginPage
    /\ script = << >>
    /\ faults = TRUE
    /\ host = ZombieHost

\* line 78: the check of the input
Rejects(ev) == ~ev.url \/ ~ev.instructions \/ ~ev.testId

\* faulty variant of Destructure: the whole event stays in reach
DestructureAll(ev) == ev

\* line 77: the fields handler takes out of the event; the rest of the
\* event is not read again
Destructure(ev) == [url |-> ev.url, instructions |-> ev.instructions, testId |-> ev.testId]

\* lines 73-75: the invocation begins with cleanupEnvironment
Invoke ==
    /\ pc = "start"
    /\ host' = cleanupEnvironment(host)
    /\ pc' = "validate"
    /\ UNCHANGED << event, browser, page, loopCount, history, simplifiedHtml, attempt,
                    prompt, step, trace, testResult, finalMessage, reply, error, db,
                    script, faults, out >>

\* lines 77-78: the fields are taken out of the event and checked
Validate ==
    /\ pc = "validate"
    /\ event' = Destructure(event)
    /\ pc' = IF Rejects(event) THEN "rejected" ELSE "launch"
    /\ UNCHANGED << browser, page, loopCount, history, simplifiedHtml, attempt, prompt,
                    step, trace, testResult, finalMessage, reply, error, db, script,
                    faults, out, host >>

\* lines 90-101: playwright.launch
Launch ==
    /\ pc = "launch"
    /\ \E o \in Outcomes :
          IF o = "ok"
          THEN /\ browser' = "open"
               /\ pc' = "navigate"
               /\ UNCHANGED << loopCount, history, simplifiedHtml, attempt, prompt, step, trace,
                               testResult, finalMessage, reply, error >>
          ELSE /\ browser' = browser
               /\ Throw("launch failed")
    /\ UNCHANGED << event, page, db, script, faults, out, host >>

\* lines 103-117: context, page, navigation, the first wait, the loop's variables
Navigate ==
    /\ pc = "navigate"
    /\ \E o \in Outcomes :
          IF o = "ok"
          THEN /\ pc' = "loop"
               /\ history' = << >>
               /\ loopCount' = 0
               /\ testResult' = "Running"
               /\ finalMessage' = ""
               /\ UNCHANGED << simplifiedHtml, attempt, prompt, step, trace, reply, error >>
          ELSE Throw("navigation failed")
    /\ UNCHANGED << event, browser, page, db, script, faults, out, host >>

\* line 119-121: the loop condition and the count of the iteration
LoopHead ==
    /\ pc = "loop"
    /\ IF loopCount < MAX_LOOPS
       THEN /\ loopCount' = loopCount + 1
            /\ pc' = "snapshot"
       ELSE /\ loopCount' = loopCount
            /\ pc' = "capcheck"
    /\ UNCHANGED << event, browser, page, history, simplifiedHtml, attempt, prompt, step, trace,
                    testResult, finalMessage, reply, error, db, script, faults, out, host >>

\* lines 124-165: page.evaluate builds the snapshot; step starts as null
TakeSnapshot ==
    /\ pc = "snapshot"
    /\ \E o \in Outcomes :
          IF o = "ok"
          THEN /\ simplifiedHtml' = Snapshot(page)
               /\ step' = NoStep
               /\ trace' = << >>
               /\ attempt' = 1
               /\ prompt' = Prompt(event.instructions, history, Snapshot(page))
               /\ reply' = "none"
               /\ pc' = "oracle"
               /\ UNCHANGED << loopCount, history, testResult, finalMessage, error >>
          ELSE Throw("evaluate failed")
    /\ UNCHANGED << event, browser, page, db, script, faults, out, host >>

----------------------------------------------------------------------------
(* getNextStep *)

\* how one call of the text-generation service can end: the call raises,
\* the text has no brace, the text between the braces does not parse, or
\* it parses to an object
Replies == { "error", "nobrace", "badjson", "ok" }

\* A response text is a sequence of tokens: the two braces, "m" for text
\* that is a member of a JSON object, "1" for text that is a JSON value
\* but no object, "x" for any other text.
TextTokens == { "{", "}", "m", "1", "x" }

\* String.prototype.indexOf and lastIndexOf for one character, counted
\* from 0, -1 when the character is absent
IndexOf(s, c) ==
    IF \E i \in 1..Len(s) : s[i] = c
    THEN (CHOOSE i \in 1..Len(s) : s[i] = c /\ \A j \in 1..(i - 1) : s[j] # c) - 1
    ELSE -1

\* faulty variant of LastIndexOf: the first occurrence is taken
LastIndexOfFirst(s, c) == IndexOf(s, c)

LastIndexOf(s, c) ==
    IF \E i \in 1..Len(s) : s[i] = c
    THEN (CHOOSE i \in 1..Len(s) : s[i] = c /\ \A j \in (i + 1)..Len(s) : s[j] # c) - 1
    ELSE -1

\* String.prototype.substring(a, b): the arguments are clamped to the
\* string and swapped when a > b
Substring(s, a, b) ==
    LET ca == IF a < 0 THEN 0 ELSE IF a > Len(s) THEN Len(s) ELSE a
        cb == IF b < 0 THEN 0 ELSE IF b > Len(s) THEN Len(s) ELSE b
        lo == IF ca < cb THEN ca ELSE cb
        hi == IF ca < cb THEN cb ELSE ca
    IN  SubSeq(s, lo + 1, hi)

\* the number of braces open after the first i tokens of s
RECURSIVE Depth(_, _)
Depth(s, i) ==
    IF i = 0 THEN 0
    ELSE Depth(s, i - 1) + (IF s[i] = "{" THEN 1 ELSE IF s[i] = "}" THEN -1 ELSE 0)

\* the texts JSON.parse accepts as an object: one pair of braces around
\* members and nested objects
IsJsonObject(s) ==
    /\ Len(s) >= 2
    /\ \A i \in 1..Len(s) : s[i] \in { "{", "}", "m" }
    /\ \A i \in 1..(Len(s) - 1) : Depth(s, i) >= 1
    /\ Depth(s, Len(s)) = 0

\* the texts JSON.parse accepts
IsJson(s) == IsJsonObject(s) \/ s = << "1" >>

\* lines 365-376: what one attempt makes of the response text: the kind
\* of outcome and, when it parses, the text that was parsed
ParseResponse(text) ==
    LET start == IndexOf(text, "{")
        end == LastIndexOf(text, "}")
    IN  IF start = -1 \/ end = -1 THEN [kind |-> "nobrace", value |-> << >>]
        ELSE LET jsonString == Substring(text, start, end + 1)
             IN  IF IsJson(jsonString) THEN [kind |-> "ok", value |-> jsonString]
                 ELSE [kind |-> "badjson", value |-> << >>]

\* line 382: the decision returned after the last failed attempt
WaitStep == Decision("wait", E, E, "", FALSE, "AI is overloaded, waiting...")

\* faulty variant of AfterFailure: the last failure is thrown on
AfterFailureRaises(k) == IF k = MaxAttempts THEN "raise" ELSE "retry"

\* faulty variant of AfterFailure: the catch block throws the failure on
AfterFailureRethrows(k) == "raise"

\* faulty variant of AfterFailure: one attempt more
AfterFailureOneMore(k) == IF k = MaxAttempts + 1 THEN "return" ELSE "retry"

\* lines 377-386, the catch block of attempt k: "retry" after the delay,
\* "return" the wait decision, or "raise"
AfterFailure(k) == IF k = MaxAttempts THEN "return" ELSE "retry"

\* lines 363-376 and 377-383: one attempt of getNextStep, called from
\* line 167 (pc "oracle") or from the catch block at line 170 (pc "oracle2");
\* o is what an observer of the calls of line 365 holds afterwards
GetNextStepCall(o) ==
    /\ pc \in { "oracle", "oracle2" }
    /\ out' = o
    /\ \E r \in Replies :
          /\ (script # << >> /\ attempt = MaxAttempts) => r = "ok"
          /\ reply' = r
          /\ IF r = "ok"
             THEN /\ \E d \in Offered : step' = d
                  /\ script' = IF script # << >> THEN Tail(script) ELSE script
                  /\ pc' = "branch"
                  /\ attempt' = 0
                  /\ prompt' = NoPrompt
                  /\ UNCHANGED << error, loopCount, history, simplifiedHtml,
                                  trace, testResult, finalMessage >>
             ELSE /\ script' = script
                  /\ CASE AfterFailure(attempt) = "retry" ->
                            /\ pc' = IF pc = "oracle" THEN "backoff" ELSE "backoff2"
                            /\ UNCHANGED << attempt, prompt, step, error, loopCount, history,
                                            simplifiedHtml, trace, testResult,
                                            finalMessage >>
                       [] AfterFailure(attempt) = "return" ->
                            /\ step' = WaitStep
                            /\ pc' = "branch"
                            /\ attempt' = 0
                            /\ prompt' = NoPrompt
                            /\ UNCHANGED << error, loopCount, history,
                                            simplifiedHtml, trace, testResult,
                                            finalMessage >>
                       [] OTHER ->
                            \* getNextStep raised: line 168 catches the first
                            \* call's exception, waits and calls again
                            IF pc = "oracle"
                            THEN /\ pc' = "oracle2"
                                 /\ attempt' = 1
                                 /\ prompt' = Prompt(event.instructions, history,
                                                     simplifiedHtml)
                                 /\ UNCHANGED << step, error, loopCount, history,
                                                 simplifiedHtml, trace, testResult,
                                                 finalMessage >>
                            ELSE /\ pc' = "crash"
                                 /\ error' = "AI failed"
                                 /\ loopCount' = 0
                                 /\ history' = << >>
                                 /\ simplifiedHtml' = << >>
                                 /\ attempt' = 0
                                 /\ prompt' = NoPrompt
                                 /\ step' = NoStep
                                 /\ trace' = << >>
                                 /\ testResult' = ""
                                 /\ finalMessage' = ""
    /\ UNCHANGED << event, browser, page, db, faults, host >>

\* one attempt, nobody counting
GetNextStepAttempt == GetNextStepCall(out)

\* line 385: the delay before the next attempt
Backoff ==
    /\ pc \in { "backoff", "backoff2" }
    /\ attempt' = attempt + 1
    /\ pc' = IF pc = "backoff" THEN "oracle" ELSE "oracle2"
    /\ UNCHANGED << event, browser, page, loopCount, history, simplifiedHtml, step, trace,
                    testResult, finalMessage, reply, error, db, script, faults, out, host,
                    prompt >>

----------------------------------------------------------------------------
(* handler: the decision, the step, the report *)

\* faulty variant of FinishStatus: the success flag is ignored
FinishStatusAlways(st) == "COMPLETED"

\* line 182
FinishStatus(st) == IF st.success THEN "COMPLETED" ELSE "FAILED"

\* faulty variant of NextAfterDecision: wait is not told apart from a step
NextAfterDecisionNoWait(st) ==
    IF st.action = "" THEN "capcheck"
    ELSE IF st.action = "finish" THEN "capcheck"
    ELSE "execute"

\* faulty variant of NextAfterDecision: wait goes on without its delay
NextAfterDecisionNoDelay(st) ==
    IF st.action = "" THEN "capcheck"
    ELSE IF st.action = "finish" THEN "capcheck"
    ELSE IF st.action = "wait" THEN "snapshot"
    ELSE "execute"

\* faulty variant of NextAfterDecision: wait leaves the loop
NextAfterDecisionWaitEnds(st) ==
    IF st.action = "" THEN "capcheck"
    ELSE IF st.action = "finish" THEN "capcheck"
    ELSE IF st.action = "wait" THEN "capcheck"
    ELSE "execute"

\* lines 173-192: where the loop goes with the decision
NextAfterDecision(st) ==
    IF st.action = "" THEN "capcheck"
    ELSE IF st.action = "finish" THEN "capcheck"
    ELSE IF st.action = "wait" THEN "waitDelay"
    ELSE "execute"

\* lines 173-190: what the loop does with the decision
Branch ==
    /\ pc = "branch"
    /\ pc' = NextAfterDecision(step)
    /\ IF step.action = ""
       THEN /\ testResult' = "FAILED"
            /\ finalMessage' = "AI Brain Failure"
       ELSE IF step.action = "finish"
       THEN /\ testResult' = FinishStatus(step)
            /\ finalMessage' = step.desc
       ELSE UNCHANGED << testResult, finalMessage >>
    /\ reply' = "none"
    /\ UNCHANGED << event, browser, page, loopCount, history, simplifiedHtml, attempt, prompt,
                    step, trace, error, db, script, faults, out, host >>

\* faulty variant of HistoryEntry: every step is recorded as a success
HistoryEntryHopeful(raised, st) ==
    [tag |-> "SUCCESS", action |-> st.action, target |-> st.target]

\* lines 195 and 198: the entry pushed for an executed step
HistoryEntry(raised, st) ==
    [tag |-> IF raised THEN "FAILED" ELSE "SUCCESS", action |-> st.action,
     target |-> st.target]

\* lines 193-199: executeStep and the entry it leaves in the history
Execute ==
    /\ pc = "execute"
    /\ \E env \in (IF faults THEN Envs ELSE { NoFaults }) :
          LET r == executeStep(page, step, env)
          IN  /\ page' = r.page
              /\ trace' = r.trace
              /\ history' = Append(history, HistoryEntry(r.raised, step))
    /\ pc' = "settle"
    /\ UNCHANGED << event, browser, loopCount, simplifiedHtml, attempt, prompt, step, testResult,
                    finalMessage, reply, error, db, script, faults, out, host >>

\* lines 188 and 201: page.waitForTimeout(2000); the iteration's variables
\* (step, simplifiedHtml) end with the loop body
Settle ==
    /\ pc \in { "waitDelay", "settle" }
    /\ \E o \in Outcomes :
          IF o = "ok"
          THEN /\ pc' = "loop"
               /\ step' = NoStep
               /\ simplifiedHtml' = << >>
               /\ trace' = << >>
               /\ UNCHANGED << loopCount, history, attempt, prompt, testResult, finalMessage,
                               reply, error >>
          ELSE Throw("wait failed")
    /\ UNCHANGED << event, browser, page, db, script, faults, out, host >>

\* faulty variant of CapReached: the test after the loop is missing
CapReachedNever(n) == FALSE

\* faulty variant of CapReached: off by one
CapReachedLate(n) == n > MAX_LOOPS

\* line 204
CapReached(n) == n >= MAX_LOOPS

\* lines 204-207
CapCheck ==
    /\ pc = "capcheck"
    /\ IF CapReached(loopCount)
       THEN /\ testResult' = "FAILED"
            /\ finalMessage' = "Maximum steps exceeded."
       ELSE UNCHANGED << testResult, finalMessage >>
    /\ pc' = "report"
    /\ UNCHANGED << event, browser, page, loopCount, history, simplifiedHtml, attempt, prompt,
                    step, trace, reply, error, db, script, faults, out, host >>

\* lines 210-224: the screenshot, its upload and the signed URL
Report ==
    /\ pc = "report"
    /\ \E o \in Outcomes :
          IF o = "ok"
          THEN /\ pc' = "write"
               /\ UNCHANGED << loopCount, history, simplifiedHtml, attempt, prompt, step, trace,
                               testResult, finalMessage, reply, error >>
          ELSE Throw("report failed")
    /\ UNCHANGED << event, browser, page, db, script, faults, out, host >>

\* lines 226-241: the record after the normal update
NormalWrite(rec, status, result, h) ==
    [rec EXCEPT !.status = status, !.result = result, !.history = h,
                !.screenshot = TRUE, !.shape = "normal", !.writes = rec.writes + 1]

\* faulty variant of CrashWrite: the message is stored as the result too
CrashWriteMixed(rec, msg) ==
    [rec EXCEPT !.status = "FAILED", !.error = msg, !.result = msg, !.shape = "crash",
                !.writes = rec.writes + 1]

\* faulty variant of CrashWrite: a fixed text is stored for the message
CrashWriteFixedText(rec, msg) ==
    [rec EXCEPT !.status = "FAILED", !.error = "System Crash", !.shape = "crash",
                !.writes = rec.writes + 1]

\* faulty variant of CrashWrite: the status is left as it was
CrashWriteNoStatus(rec, msg) ==
    [rec EXCEPT !.error = msg, !.shape = "crash", !.writes = rec.writes + 1]

\* lines 244-256: the record after the crash update
CrashWrite(rec, msg) ==
    [rec EXCEPT !.status = "FAILED", !.error = msg, !.shape = "crash",
                !.writes = rec.writes + 1]

WriteResult ==
    /\ pc = "write"
    /\ \E o \in Outcomes :
          IF o = "ok"
          THEN /\ db' = NormalWrite(db, testResult, finalMessage, history)
               /\ pc' = "close"
               /\ error' = error
               /\ LocalsGone
          ELSE /\ db' = db
               /\ Throw("update failed")
    /\ UNCHANGED << event, browser, page, script, faults, out, host >>

\* lines 242-256: the catch block; an exception of its own update leaves handler
WriteCrash ==
    /\ pc = "crash"
    /\ \E o \in Outcomes :
          IF o = "ok"
          THEN /\ db' = CrashWrite(db, error)
               /\ pc' = "close"
          ELSE /\ db' = db
               /\ pc' = "closeThrow"
    /\ UNCHANGED << event, browser, page, loopCount, history, simplifiedHtml, attempt, prompt,
                    step, trace, testResult, finalMessage, reply, error, script, faults,
                    out, host >>

\* faulty variant of AfterFinally: the handle is let go without close
AfterFinallyLeaks(b) == b

\* line 258: browser.close() when a browser was launched
AfterFinally(b) == IF b = "open" THEN "closed" ELSE b

\* lines 257-259: the finally block
CloseBrowser ==
    /\ pc \in { "close", "closeThrow" }
    /\ browser' = AfterFinally(browser)
    /\ pc' = IF pc = "close" THEN "done" ELSE "threw"
    /\ UNCHANGED << event, page, loopCount, history, simplifiedHtml, attempt, prompt, step, trace,
                    testResult, finalMessage, reply, error, db, script, faults, out, host >>

Next ==
    \/ Invoke
    \/ Validate
    \/ Launch
    \/ Navigate
    \/ LoopHead
    \/ TakeSnapshot
    \/ GetNextStepAttempt
    \/ Backoff
    \/ Branch
    \/ Execute
    \/ Settle
    \/ CapCheck
    \/ Report
    \/ WriteResult
    \/ WriteCrash
    \/ CloseBrowser

Spec == Init /\ [][Next]_vars

----------------------------------------------------------------------------
(* The login scenario: a login form, the oracle following LoginScript,    *)
(* every call into the browser, the bucket and the table succeeding       *)

InitLogin ==
    /\ InitCommon
    /\ event = FullEvent
    /\ page \in LoginPages
    /\ script = LoginScript
    /\ faults = FALSE
    /\ host = ZombieHost

NextLogin ==
    \/ Invoke
    \/ Validate
    \/ Launch
    \/ Navigate
    \/ LoopHead
    \/ TakeSnapshot
    \/ GetNextStepAttempt
    \/ Backoff
    \/ Branch
    \/ Execute
    \/ Settle
    \/ CapCheck
    \/ Report
    \/ WriteResult
    \/ CloseBrowser

SpecLogin == InitLogin /\ [][NextLogin]_vars

\* the same with the oracle following LongScript
InitHistory ==
    /\ InitCommon
    /\ event = FullEvent
    /\ page \in LoginPages
    /\ script = LongScript
    /\ faults = FALSE
    /\ host = ZombieHost

SpecHistory == InitHistory /\ [][NextLogin]_vars

----------------------------------------------------------------------------
(* The step budget: the oracle following a script that does not end the   *)
(* loop before the cap, each call of the text-generation service counted  *)

WaitDecision == Decision("wait", E, E, "", FALSE, "")

BudgetScripts ==
    { [i \in 1..MAX_LOOPS |-> WaitDecision],
      [i \in 1..MAX_LOOPS |-> Click(sSignIn)],
      [i \in 1..MAX_LOOPS |-> IF i % 3 = 1 THEN Click(sGhost)
                              ELSE IF i % 3 = 2 THEN WaitDecision
                              ELSE Fill(sUser, sTest)],
      LongScript }

InitBudget ==
    /\ InitLocals
    /\ event = FullEvent
    /\ page = LoginPage
    /\ script \in BudgetScripts
    /\ faults = FALSE
    /\ host = ZombieHost
    /\ out = [op |-> "calls", n |-> 0, script |-> script]

\* line 365: one more call of generateContent
CountedAttempt == GetNextStepCall([out EXCEPT !.n = @ + 1])

NextBudget ==
    \/ Invoke
    \/ Validate
    \/ Launch
    \/ Navigate
    \/ LoopHead
    \/ TakeSnapshot
    \/ CountedAttempt
    \/ Backoff
    \/ Branch
    \/ Execute
    \/ Settle
    \/ CapCheck
    \/ Report
    \/ WriteResult
    \/ CloseBrowser

SpecBudget == InitBudget /\ [][NextBudget]_vars

----------------------------------------------------------------------------
(* The report phase: the oracle following a script to the end of the      *)
(* loop, every awaited call free to raise; out keeps the script           *)

ReportScripts ==
    { LoginScript,
      << Click(sGhost), Finish(FALSE, "goal not reached") >>,
      [i \in 1..MAX_LOOPS |-> WaitDecision] }

InitReport ==
    /\ InitLocals
    /\ event = FullEvent
    /\ page = LoginPage
    /\ script \in ReportScripts
    /\ faults = TRUE
    /\ host = ZombieHost
    /\ out = [op |-> "run", script |-> script]

SpecReport == InitReport /\ [][Next]_vars

----------------------------------------------------------------------------
(* Decisions whose action the runner does not know: the oracle following  *)
(* a script of them, every awaited call free to raise                     *)

UnknownScript ==
    << Decision("hover", sUser, E, "", FALSE, ""),
       Decision("Click", sGhost, E, "", FALSE, ""),
       Decision("scroll", E, sTest, "Enter", FALSE, ""),
       Finish(TRUE, "goal reached") >>

InitUnknown ==
    /\ InitLocals
    /\ event = FullEvent
    /\ page \in LoginPages
    /\ script = UnknownScript
    /\ faults = TRUE
    /\ host = ZombieHost
    /\ out = [op |-> "run", script |-> script]

SpecUnknown == InitUnknown /\ [][Next]_vars

----------------------------------------------------------------------------
(* The run record across the two functions: startTestRun and getTestRun   *)
(* of the API handler, the stack that deploys both functions, and the     *)
(* terminal write of the runner                                           *)

\* stack, lines 407-411: the table of runs is given no name, so its name
\* is generated at deployment
GeneratedRunsTable == "Stack-TestRunsTable-1A2B3C"

GeneratedDefinitionsTable == "Stack-TestDefinitionsTable-4D5E6F"

\* stack, lines 474-480: the environment of the runner
RunnerEnvironment ==
    [GEMINI_API_KEY |-> "key",
     TEST_RUNS_TABLE_NAME |-> GeneratedRunsTable,
     TEST_DEFINITIONS_TABLE_NAME |-> GeneratedDefinitionsTable,
     BUCKET_NAME |-> "bucket",
     HOME |-> "/tmp"]

\* stack, lines 495-503: the environment of the API handler
ApiEnvironment ==
    [TEST_RUNS_TABLE_NAME |-> GeneratedRunsTable,
     TEST_DEFINITIONS_TABLE_NAME |-> GeneratedDefinitionsTable,
     USERS_TABLE_NAME |-> "Stack-UsersTable-7A8B9C",
     RUNNER_FUNCTION_NAME |-> "Stack-BrowserRunner",
     SCHEDULE_ROLE_ARN |-> "role",
     AWS_REGION_NAME |-> "region",
     AWS_ACCOUNT_ID |-> "account"]

\* process.env[name]; "" stands for undefined
GetEnv(env, name) == IF name \in DOMAIN env THEN env[name] ELSE ""

\* runner, line 19: process.env.TABLE_NAME || "TestRuns"
TABLE_NAME ==
    IF GetEnv(RunnerEnvironment, "TABLE_NAME") # ""
    THEN GetEnv(RunnerEnvironment, "TABLE_NAME")
    ELSE "TestRuns"

\* API handler, part_000 line 20
TEST_RUNS_TABLE_NAME == GetEnv(ApiEnvironment, "TEST_RUNS_TABLE_NAME")

TableNames == { GeneratedRunsTable, "TestRuns" }

\* no item under the run's id
NoItem ==
    [status |-> "none", result |-> "", error |-> "", history |-> << >>,
     screenshot |-> FALSE, shape |-> "none", writes |-> 0]

\* the body of POST /tests
Bodies == [url : BOOLEAN, instructions : BOOLEAN, outcome : BOOLEAN,
           testDefinitionId : BOOLEAN]

\* how a run of the runner ends: the normal update with one of the two
\* statuses, or the update of the catch block
RunEnds == { "COMPLETED", "FAILED", "crash" }

\* out holds the account: whether a table named TestRuns exists beside the
\* stack's and whether the runner's role may write to it, the item under
\* the run's id in each table, the runner's state, what getTestRun last
\* returned and the lastRunStatus of the linked definition
InitSystem ==
    /\ InitLocals
    /\ event \in Bodies
    /\ page = LoginPage
    /\ script = << >>
    /\ faults = FALSE
    /\ host = ZombieHost
    /\ \E ex \in BOOLEAN, gr \in BOOLEAN :
          out = [op |-> "system", exists |-> ex, granted |-> gr,
                 tables |-> [t \in TableNames |-> NoItem],
                 runner |-> "none", read |-> "none", lastRunStatus |-> "none"]

SystemFrame ==
    UNCHANGED << browser, page, loopCount, history, simplifiedHtml, attempt, prompt, step,
                 trace, testResult, finalMessage, reply, error, db, script, faults, host >>

\* part_000 lines 36-59: the validation and the PutCommand of startTestRun
StartPut ==
    /\ pc = "start"
    /\ out.op = "system"
    /\ IF ~event.url \/ ~event.instructions \/ ~event.outcome
       THEN /\ pc' = "rejected"
            /\ out' = out
       ELSE /\ pc' = "created"
            /\ out' = [out EXCEPT !.tables[TEST_RUNS_TABLE_NAME] = CreatedRecord]
    /\ UNCHANGED event
    /\ SystemFrame

\* part_000 lines 62-68: the InvokeCommand with InvocationType Event; the
\* runner is entered with testId, url, instructions and outcome
StartInvoke ==
    /\ pc = "created"
    /\ pc' = "invoked"
    /\ out' = [out EXCEPT !.runner = "running"]
    /\ UNCHANGED event
    /\ SystemFrame

\* part_000 lines 71-85: the update of the linked definition and the return
StartReturn ==
    /\ pc = "invoked"
    /\ pc' = "returned"
    /\ out' = [out EXCEPT !.lastRunStatus = IF event.testDefinitionId THEN "RUNNING" ELSE @]
    /\ UNCHANGED event
    /\ SystemFrame

\* runner, lines 226-256: the update that ends the run, on the table the
\* runner names; an UpdateCommand on a key without item creates the item;
\* on a table that is missing or not granted both updates raise
RunnerTerminalWrite ==
    /\ out.op = "system"
    /\ out.runner = "running"
    /\ \E e \in RunEnds :
          IF TABLE_NAME = GeneratedRunsTable \/ (out.exists /\ out.granted)
          THEN out' = [out EXCEPT
                         !.runner = "done",
                         !.tables[TABLE_NAME] =
                             IF e = "crash" THEN CrashWrite(@, "message")
                             ELSE NormalWrite(@, e, "message", << >>)]
          ELSE out' = [out EXCEPT !.runner = "threw"]
    /\ UNCHANGED << pc, event >>
    /\ SystemFrame

\* part_000 lines 92-130: getTestRun with the id startTestRun returned
GetTestRun ==
    /\ pc = "returned"
    /\ LET item == out.tables[TEST_RUNS_TABLE_NAME]
       IN  out' = [out EXCEPT
                     !.read = IF item.status = "none" THEN "Test not found"
                              ELSE item.status,
                     !.lastRunStatus =
                         IF event.testDefinitionId
                            /\ item.status \in { "COMPLETED", "FAILED" }
                         THEN item.status ELSE @]
    /\ out' # out
    /\ UNCHANGED << pc, event >>
    /\ SystemFrame

NextSystem ==
    \/ StartPut
    \/ StartInvoke
    \/ StartReturn
    \/ RunnerTerminalWrite
    \/ GetTestRun

SpecSystem == InitSystem /\ [][NextSystem]_vars

----------------------------------------------------------------------------
(* The test definitions of the API handler and their schedules: one       *)
(* definition id, created once, then updated and deleted in any order.    *)
(* "" stands for undefined where a field is a string.                     *)

\* part_001 lines 30-40
getScheduleExpression(interval) ==
    CASE interval = "15m" -> "rate(15 minutes)"
      [] interval = "30m" -> "rate(30 minutes)"
      [] interval = "1h" -> "rate(1 hour)"
      [] interval = "6h" -> "rate(6 hours)"
      [] interval = "12h" -> "rate(12 hours)"
      [] interval = "24h" -> "rate(24 hours)"
      [] OTHER -> "rate(1 hour)"

\* the scheduleName of the one definition
sScheduleName == "test-id"

NoDefinition ==
    [exists |-> FALSE, name |-> "", isScheduled |-> FALSE, scheduleInterval |-> "",
     scheduleName |-> "", slackWebhookUrl |-> "undefined"]

\* the bodies of POST /test-definitions; required says whether url,
\* instructions and desiredOutcome are all there
CreateBodies ==
    [name : { "", "n1" }, required : BOOLEAN,
     isScheduled : { "undefined", "true", "false" },
     scheduleInterval : { "", "1h", "6h", "7d" },
     slackWebhookUrl : { "undefined", "hook" }]

\* the bodies of PUT /test-definitions/{id}
UpdateBodies ==
    [name : { "", "n2" },
     isScheduled : { "undefined", "true", "false" },
     scheduleInterval : { "", "1h", "6h", "7d" },
     slackWebhookUrl : { "undefined", "", "hook" }]

\* out holds the item stored under the id, the schedule expression of the
\* schedule named test-<id> ("" when there is none), whether the id has
\* been created, whether a call of the scheduler has raised, and how the
\* last call ended
InitDefinitions ==
    /\ InitLocals
    /\ event = FullEvent
    /\ page = LoginPage
    /\ script = << >>
    /\ faults = FALSE
    /\ host = ZombieHost
    /\ out = [op |-> "definitions", item |-> NoDefinition, schedule |-> "",
              created |-> FALSE, raised |-> FALSE, last |-> "none"]

DefinitionsFrame ==
    UNCHANGED << pc, event, browser, page, loopCount, history, simplifiedHtml, attempt,
                 prompt, step, trace, testResult, finalMessage, reply, error, db, script,
                 faults, host >>

\* part_001 lines 46-118
createTestDefinition ==
    /\ out.op = "definitions"
    /\ ~out.created
    /\ \E body \in CreateBodies :
          IF body.name = "" \/ ~body.required
             \/ (body.isScheduled = "true" /\ body.scheduleInterval = "")
          THEN out' = [out EXCEPT !.last = "threw"]
          ELSE LET scheduled == body.isScheduled = "true" /\ body.scheduleInterval # ""
               IN  out' = [out EXCEPT
                             !.created = TRUE,
                             !.last = "ok",
                             !.schedule = IF scheduled
                                          THEN getScheduleExpression(body.scheduleInterval)
                                          ELSE @,
                             !.item = [exists |-> TRUE,
                                       name |-> body.name,
                                       isScheduled |-> body.isScheduled = "true",
                                       scheduleInterval |-> body.scheduleInterval,
                                       scheduleName |-> IF scheduled THEN sScheduleName
                                                        ELSE "",
                                       slackWebhookUrl |-> body.slackWebhookUrl]]
    /\ DefinitionsFrame

\* part_001 lines 179-282; DeleteSchedule raises on a name without
\* schedule and CreateSchedule on a name that has one
updateTestDefinition ==
    /\ out.op = "definitions"
    /\ out.created
    /\ \E body \in UpdateBodies :
          IF ~out.item.exists
          THEN out' = [out EXCEPT !.last = "threw"]
          ELSE LET existingTest == out.item
                   wasScheduled == existingTest.isScheduled
                   willBeScheduled == IF body.isScheduled # "undefined"
                                      THEN body.isScheduled = "true"
                                      ELSE wasScheduled
                   oldInterval == existingTest.scheduleInterval
                   newInterval == IF body.scheduleInterval # ""
                                  THEN body.scheduleInterval ELSE oldInterval
                   branch == IF wasScheduled /\ ~willBeScheduled
                                /\ existingTest.scheduleName # ""
                             THEN "delete"
                             ELSE IF ~wasScheduled /\ willBeScheduled /\ newInterval # ""
                             THEN "create"
                             ELSE IF wasScheduled /\ willBeScheduled
                                     /\ oldInterval # newInterval
                                     /\ existingTest.scheduleName # ""
                                     /\ newInterval # ""
                             THEN "replace"
                             ELSE "none"
                   raises == \/ branch \in { "delete", "replace" } /\ out.schedule = ""
                             \/ branch = "create" /\ out.schedule # ""
                   throws == raises /\ branch \in { "create", "replace" }
                   schedule == IF raises THEN out.schedule
                               ELSE IF branch = "delete" THEN ""
                               ELSE IF branch \in { "create", "replace" }
                               THEN getScheduleExpression(newInterval)
                               ELSE out.schedule
               IN  IF throws
                   THEN out' = [out EXCEPT !.last = "threw", !.raised = TRUE]
                   ELSE out' = [out EXCEPT
                                  !.last = "ok",
                                  !.raised = @ \/ raises,
                                  !.schedule = schedule,
                                  !.item = [exists |-> TRUE,
                                            name |-> IF body.name # "" THEN body.name
                                                     ELSE existingTest.name,
                                            isScheduled |-> willBeScheduled,
                                            scheduleInterval |-> IF willBeScheduled
                                                                 THEN newInterval ELSE "",
                                            scheduleName |-> IF branch = "create"
                                                             THEN sScheduleName
                                                             ELSE existingTest.scheduleName,
                                            slackWebhookUrl |->
                                                IF body.slackWebhookUrl # "undefined"
                                                THEN body.slackWebhookUrl
                                                ELSE existingTest.slackWebhookUrl]]
    /\ DefinitionsFrame

\* part_001 lines 288-317
deleteTestDefinition ==
    /\ out.op = "definitions"
    /\ out.created
    /\ IF ~out.item.exists
       THEN out' = [out EXCEPT !.last = "threw"]
       ELSE LET raises == out.item.scheduleName # "" /\ out.schedule = ""
            IN  out' = [out EXCEPT
                          !.last = "ok",
                          !.raised = @ \/ raises,
                          !.schedule = IF out.item.scheduleName # "" THEN "" ELSE @,
                          !.item = NoDefinition]
    /\ DefinitionsFrame

NextDefinitions ==
    \/ createTestDefinition
    \/ updateTestDefinition
    \/ deleteTestDefinition

SpecDefinitions == InitDefinitions /\ [][NextDefinitions]_vars

----------------------------------------------------------------------------
(* Invocations that differ in the outcome they are given: the login       *)
(* scenario, every awaited call free to raise; out keeps the outcome      *)

OutcomeTexts == { "the dashboard is shown", "an error is shown" }

InitOutcome ==
    /\ InitLocals
    /\ event \in { [FullEvent EXCEPT !.outcome = o] : o \in OutcomeTexts }
    /\ page \in LoginPages
    /\ script = LoginScript
    /\ faults = TRUE
    /\ host = ZombieHost
    /\ out = [op |-> "run", outcome |-> event.outcome]

SpecOutcome == InitOutcome /\ [][Next]_vars

----------------------------------------------------------------------------
(* The driver functions on their own: findBestLocator, the snapshot       *)
(* callback and executeStep applied once to a page drawn from many        *)

DriverElements ==
    { Input(sOk, E, E, E, E, E, "visible", "visible"),
      Input(E, sOk, E, E, E, E, "visible", "visible"),
      Input(E, sKG, E, E, E, sOld, "visible", "visible"),
      Input(E, E, E, sOkGo, E, E, "visible", "visible"),
      Input(E, E, E, E, sOkGo, sOld, "visible", "visible"),
      Element("button", E, E, E, E, E, sOkGo, E, "visible", "visible"),
      Element("button", E, E, E, sOkGo, E, E, E, "visible", "visible"),
      Element("a", E, E, E, sOkGo, E, E, E, "visible", "visible"),
      Element("div", E, E, E, sOkGo, E, E, E, "visible", "visible"),
      Element("button", E, E, E, sOkGo, E, E, E, "displayNone", "visible"),
      Element("button", E, E, E, sOkGo, E, E, E, "hidden", "visible"),
      Element("button", E, E, E, sOkGo, E, E, E, "opacity0", "visible"),
      Element("button", E, E, E, sOkGo, E, E, E, "visible", "displayNone"),
      Element("button", E, E, E, sOkGo, E, E, E, "visible", "hidden"),
      Element("button", E, E, E, sOkGo, E, E, E, "visible", "opacity0") }

RECURSIVE SeqsUpTo(_, _)
SeqsUpTo(S, n) ==
    IF n = 0 THEN { << >> }
    ELSE SeqsUpTo(S, n - 1) \cup { Append(q, x) : q \in SeqsUpTo(S, n - 1), x \in S }

DriverPages == SeqsUpTo(DriverElements, MaxPageLen)

DriverTargets == { sOk, sOK, sKG }

DriverSteps ==
    { Click(t) : t \in DriverTargets } \cup { Fill(t, sTest) : t \in DriverTargets }
      \cup { Press("Enter"), Decision("hover", sOk, E, "", FALSE, "") }

InitDriver ==
    /\ InitCommon
    /\ event = FullEvent
    /\ page \in DriverPages
    /\ script = << >>
    /\ faults = TRUE
    /\ host = ZombieHost

DriverFrame ==
    UNCHANGED << event, browser, loopCount, history, simplifiedHtml, attempt, prompt, step,
                 trace, testResult, finalMessage, reply, error, db, script, faults, host >>

DriverLocate ==
    /\ pc = "start"
    /\ \E t \in DriverTargets :
          out' = [op |-> "locate", target |-> t, loc |-> findBestLocator(page, t)]
    /\ pc' = "driven"
    /\ page' = page
    /\ DriverFrame

DriverSnapshot ==
    /\ pc = "start"
    /\ out' = [op |-> "snapshot", lines |-> Snapshot(page)]
    /\ pc' = "driven"
    /\ page' = page
    /\ DriverFrame

DriverExecute ==
    /\ pc = "start"
    /\ \E st \in DriverSteps, env \in Envs :
          LET r == executeStep(page, st, env)
          IN  /\ page' = r.page
              /\ out' = [op |-> "execute", step |-> st, before |-> page,
                         raised |-> r.raised, trace |-> r.trace]
    /\ pc' = "driven"
    /\ DriverFrame

NextDriver ==
    \/ DriverLocate
    \/ DriverSnapshot
    \/ DriverExecute

SpecDriver == InitDriver /\ [][NextDriver]_vars

----------------------------------------------------------------------------
(* The snapshot callback on pages whose elements differ in the attributes *)
(* they carry                                                             *)

SnapshotElements ==
    { Input(sOk, sUser, sPassword, sOkGo, E, sOld, "visible", "visible"),
      Input(E, E, E, E, E, E, "visible", "visible"),
      Element("button", E, E, E, sLong, E, E, E, "visible", "visible"),
      Element("button", sOk, E, E, sPadded, E, E, E, "visible", "visible"),
      Element("a", E, E, E, sOkGo, E, sOk, E, "visible", "visible"),
      Element("textarea", E, sKG, E, sOk, sOkGo, E, sOld, "visible", "visible"),
      Element("div", sOk, E, E, sOkGo, E, E, E, "visible", "visible"),
      Element("button", E, E, E, sOkGo, E, E, E, "displayNone", "visible"),
      Element("button", E, E, E, sOkGo, E, E, E, "visible", "displayNone") }

InitSnapshot ==
    /\ InitCommon
    /\ event = FullEvent
    /\ page \in SeqsUpTo(SnapshotElements, MaxPageLen)
    /\ script = << >>
    /\ faults = TRUE
    /\ host = ZombieHost

NextSnapshot == DriverSnapshot

SpecSnapshot == InitSnapshot /\ [][NextSnapshot]_vars

----------------------------------------------------------------------------
(* One executed step with the calls into the browser that raise known:    *)
(* executeStep and the entry handler pushes for it                        *)

InitStep ==
    /\ InitCommon
    /\ event = FullEvent
    /\ page \in LoginPages
    /\ script = << >>
    /\ faults = TRUE
    /\ host = ZombieHost

\* lines 192-199 for one decision and one choice of the calls that raise
DriverStep ==
    /\ pc = "start"
    /\ \E st \in StepDecisions, env \in Envs :
          LET r == executeStep(page, st, env)
          IN  /\ page' = r.page
              /\ trace' = r.trace
              /\ history' = Append(history, HistoryEntry(r.raised, st))
              /\ out' = [op |-> "step", step |-> st, env |-> env, before |-> page,
                         raised |-> r.raised]
    /\ pc' = "driven"
    /\ UNCHANGED << event, browser, loopCount, simplifiedHtml, attempt, prompt, step,
                    testResult, finalMessage, reply, error, db, script, faults, host >>

NextStep == DriverStep

SpecStep == InitStep /\ [][NextStep]_vars

----------------------------------------------------------------------------
(* One attempt of getNextStep on a response text drawn from many *)

Texts == SeqsUpTo(TextTokens, MaxTextLen)

InitParse ==
    /\ InitCommon
    /\ event = FullEvent
    /\ page = LoginPage
    /\ script = << >>
    /\ faults = TRUE
    /\ host = ZombieHost

\* lines 364-376: the first attempt, the service answering with text
DriverParse ==
    /\ pc = "start"
    /\ \E text \in Texts :
          /\ out' = [op |-> "parse", text |-> text, result |-> ParseResponse(text)]
          /\ reply' = ParseResponse(text).kind
    /\ attempt' = 1
    /\ pc' = "driven"
    /\ UNCHANGED << event, browser, page, loopCount, history, simplifiedHtml, prompt, step,
                    trace, testResult, finalMessage, error, db, script, faults, host >>

NextParse == DriverParse

SpecParse == InitParse /\ [][NextParse]_vars

----------------------------------------------------------------------------
(* cleanupEnvironment on its own: run twice in succession on a host drawn *)
(* from many                                                              *)

InitCleanup ==
    /\ InitCommon
    /\ event = FullEvent
    /\ page = LoginPage
    /\ script = << >>
    /\ faults = TRUE
    /\ host \in Hosts

\* line 75: one run of cleanupEnvironment; out keeps the host it found and
\* the host the first run found
DriverCleanup ==
    /\ pc \in { "start", "cleanedOnce" }
    /\ host' = cleanupEnvironment(host)
    /\ out' = [op |-> "cleanup", found |-> host,
               first |-> IF pc = "start" THEN host ELSE out.first]
    /\ pc' = IF pc = "start" THEN "cleanedOnce" ELSE "cleanedTwice"
    /\ UNCHANGED << event, browser, page, loopCount, history, simplifiedHtml, attempt,
                    prompt, step, trace, testResult, finalMessage, reply, error, db,
                    script, faults >>

NextCleanup == DriverCleanup

SpecCleanup == InitCleanup /\ [][NextCleanup]_vars

----------------------------------------------------------------------------
(* Properties of the agent loop *)

\* C1: at whatever iteration (1 to 20) the decision is finish, the status
\* handed to storage is COMPLETED when its success is true and FAILED when
\* it is false.  (Fails: a finish decided in iteration 20 is overwritten by
\* the step-cap test of line 204.)
C1_FinishDecidesStatus ==
    (pc = "write" /\ step.action = "finish")
        => testResult = (IF step.success THEN "COMPLETED" ELSE "FAILED")

\* C2: the record is written with status COMPLETED only by the normal
\* update of a run whose loop ended on a finish decision with success true
C2_CompletedOnlyByFinish ==
    [][ (db' # db /\ db'.status = "COMPLETED")
          => (pc = "write" /\ step.action = "finish" /\ step.success) ]_vars

C2_Witness == pc = "done" /\ db.status = "COMPLETED" /\ db.shape = "normal"

\* C3: the loop never starts a 21st iteration, and a loop left after 20
\* iterations without a finish decision hands FAILED and 'Maximum steps
\* exceeded.' to storage
C3_StepCap ==
    /\ loopCount <= MAX_LOOPS
    /\ (pc \in { "report", "write" } /\ loopCount = MAX_LOOPS /\ step.action # "finish")
          => (testResult = "FAILED" /\ finalMessage = "Maximum steps exceeded.")

C3_Witness ==
    pc = "write" /\ loopCount = MAX_LOOPS /\ step.action \in { "null", "" }
      /\ finalMessage = "Maximum steps exceeded."

\* C4: a click or fill whose target resolves to no element raises before
\* any interaction with the page, leaves exactly one FAILED entry naming the
\* action and the target, sets neither status nor result, and the loop goes
\* on to the next iteration while the step budget lasts
C4_ElementNotFound ==
    [][ /\ (pc = "execute" /\ step.action \in { "click", "fill" }
              /\ findBestLocator(page, step.target) = 0)
           => /\ trace' = << >>
              /\ page' = page
              /\ history' = Append(history, [tag |-> "FAILED", action |-> step.action,
                                             target |-> step.target])
              /\ testResult' = testResult
              /\ finalMessage' = finalMessage
              /\ db' = db
              /\ pc' = "settle"
        /\ (pc = "settle" /\ pc' # "crash") => (pc' = "loop" /\ history' = history)
        /\ (pc = "loop" /\ loopCount < MAX_LOOPS)
           => (pc' = "snapshot" /\ loopCount' = loopCount + 1 /\ history' = history)
      ]_vars

C4_Witness ==
    /\ pc = "settle"
    /\ step.action \in { "click", "fill" }
    /\ findBestLocator(page, step.target) = 0
    /\ loopCount < MAX_LOOPS
    /\ history = << [tag |-> "SUCCESS", action |-> "fill", target |-> sUser],
                    [tag |-> "FAILED", action |-> step.action, target |-> step.target] >>

\* C5: getNextStep never raises, whatever the outcome of each attempt, and
\* when its third attempt fails too it returns a decision whose action is
\* wait
C5_OracleFailsSoft ==
    [][ (pc \in { "oracle", "oracle2" })
          => /\ pc' \in { "backoff", "backoff2", "branch" }
             /\ (attempt = MaxAttempts /\ reply' # "ok")
                   => (pc' = "branch" /\ step'.action = "wait") ]_vars

C5_Witness ==
    pc = "branch" /\ reply \in { "error", "nobrace", "badjson" } /\ step.action = "wait"

\* C7: an iteration whose decision is wait (the wait returned after three
\* failed attempts included) leaves history, page, status and result as
\* they were, attempts no interaction, and is followed, while the step
\* budget lasts, by a new snapshot and a new consultation of the oracle
C7_WaitIsInert ==
    [][ /\ (pc = "branch" /\ step.action = "wait")
           => /\ pc' = "waitDelay"
              /\ trace = << >>
              /\ UNCHANGED << history, page, trace, testResult, finalMessage, db >>
        /\ (pc = "waitDelay")
           => /\ trace = << >>
              /\ UNCHANGED << page, db >>
              /\ pc' \in { "loop", "crash" }
              /\ (pc' = "loop") => UNCHANGED << history, testResult, finalMessage >>
        /\ (pc = "loop" /\ loopCount < MAX_LOOPS)
           => (pc' = "snapshot" /\ UNCHANGED << history, testResult, finalMessage >>)
        /\ (pc = "snapshot" /\ pc' # "crash")
           => (pc' = "oracle" /\ attempt' = 1 /\ simplifiedHtml' = Snapshot(page))
      ]_vars

C7_Witness ==
    pc = "waitDelay" /\ step = WaitStep /\ loopCount < MAX_LOOPS /\ Len(history) = 1

\* the history of the login scenario
LoginHistory ==
    << [tag |-> "SUCCESS", action |-> "fill", target |-> sUser],
       [tag |-> "SUCCESS", action |-> "fill", target |-> sPass],
       [tag |-> "SUCCESS", action |-> "click", target |-> sSignIn] >>

\* C6: in the login scenario the loop ends in its 4th iteration, the run
\* is written COMPLETED, and the history is the three SUCCESS entries of
\* the two fills and the click, in that order
C6_LoginScenario ==
    /\ loopCount <= 4
    /\ pc \notin { "crash", "closeThrow", "threw", "rejected" }
    /\ (pc \in { "capcheck", "report", "write" })
          => (loopCount = 4 /\ history = LoginHistory)
    /\ (pc \in { "report", "write" }) => testResult = "COMPLETED"
    /\ (pc = "done")
          => (db.status = "COMPLETED" /\ db.history = LoginHistory /\ db.shape = "normal"
              /\ db.writes = 1)

C6_Witness == pc = "done" /\ db.status = "COMPLETED" /\ Len(db.history) = 3 /\ script = << >>

----------------------------------------------------------------------------
(* Properties of the driver functions *)

\* the match sets of the strategies in the order of their priority
Strategies(p, t) ==
    << IF IsBareIdentifier(t) THEN ById(p, t) ELSE {},
       IF IsBareIdentifier(t) THEN ByName(p, t) ELSE {},
       ByPlaceholder(p, t), ByLabel(p, t), ByRole(p, "button", t), ByRole(p, "link", t),
       ByText(p, t) >>

C9_NoInvisibleLine ==
    (out.op = "snapshot") =>
        \A i \in 1..Len(out.lines) : ~Invisible(page[out.lines[i].index])

\* C10: after a fill step recorded SUCCESS on a target that resolves to an
\* input, the value of that input is the value of the step, whichever of
\* the three strategies succeeded
C10_FillRoundTrip ==
    (out.op = "execute" /\ out.step.action = "fill" /\ ~out.raised) =>
        LET loc == findBestLocator(out.before, out.step.target)
        IN  /\ loc # 0
            /\ (out.before[loc].tag = "input") => page[loc].value = out.step.value
            /\ \A i \in 1..Len(page) : i # loc => page[i] = out.before[i]

C10_Witness ==
    /\ out.op = "execute"
    /\ out.step.action = "fill"
    /\ ~out.raised
    /\ out.trace = << "fill", "forceFill", "jsFill", "inputEvent", "Tab" >>
    /\ LET loc == findBestLocator(out.before, out.step.target)
       IN  /\ loc # 0
           /\ out.before[loc].tag = "input"
           /\ out.before[loc].value = sOld
           /\ page[loc].value = sTest

----------------------------------------------------------------------------
(* Properties of one invocation: its resources and its writes *)

\* C11: the browser is launched at most once, and whenever it was launched
\* it is closed exactly once, by the finally block, before handler ends:
\* after the normal write, after the step-cap exit, after an exception of
\* the loop or the report, and after a crash write that failed itself
C11_BrowserClosedOnce ==
    [][ /\ (browser' # browser)
           => \/ (pc = "launch" /\ browser = "none" /\ browser' = "open")
              \/ (pc \in { "close", "closeThrow" } /\ browser = "open"
                    /\ browser' = "closed")
        /\ (pc' \in { "done", "threw" }) => browser' \in { "none", "closed" }
        /\ (pc \in { "navigate", "loop", "snapshot", "oracle", "oracle2", "backoff",
                      "backoff2", "branch", "execute", "waitDelay", "settle",
                      "capcheck", "report", "write" }) => browser = "open"
        /\ (browser = "none" /\ pc \in { "crash", "close", "closeThrow", "done", "threw" })
           => error = "launch failed"
      ]_vars

C11_Witness == pc = "threw" /\ browser = "closed" /\ error = "report failed"

\* the host holds nothing cleanupEnvironment is there to remove
Cleaned(h) ==
    /\ \A p \in h.procs :
          (Includes(p.cmdline, sChromium) \/ Includes(p.cmdline, sHeadlessShell))
             => p.pid = h.self
    /\ \A f \in h.tmp : ~Stale(f.name)

\* C12: in every invocation, one rejected for missing input included,
\* cleanupEnvironment has run to completion before the input is checked,
\* before the browser is launched and before any storage write: until it
\* has, the event is unread, there is no browser and the record is as
\* created; from then on the host is cleaned and its other processes and
\* files are as they were
C12_CleanupFirst ==
    /\ (pc = "start")
          => (event \in Events /\ browser = "none" /\ db = CreatedRecord)
    /\ (pc # "start")
          => /\ Cleaned(host)
             /\ host.procs = { p \in ZombieHost.procs : p.owner # "orphan" }
             /\ host.tmp = { File(sNotes, "system") }

C12_Witness == pc = "rejected" /\ host # ZombieHost /\ Cleaned(host) /\ db = CreatedRecord

\* C13: an invocation whose event lacks one of url, instructions, outcome,
\* testId is rejected at the check of the input, with no browser launched
\* and no write.  (Fails: line 78 does not look at outcome, so an event
\* without outcome and with the other three goes on to the launch.)
C13_MissingFieldRejected ==
    [][ (pc = "validate"
           /\ (~event.url \/ ~event.instructions \/ ~event.outcome \/ ~event.testId))
          => (pc' = "rejected" /\ browser' = "none" /\ db' = CreatedRecord) ]_vars

\* the positions of handler from the launch to the end of the loop
BeforeReport ==
    { "launch", "navigate", "loop", "snapshot", "oracle", "oracle2", "backoff",
      "backoff2", "branch", "execute", "waitDelay", "settle", "capcheck" }

\* C14: while the loop is iterating the record is as startTestRun created
\* it; an invocation applies at most one update to it, and the record then
\* holds either the normal shape (status, result, screenshot and history
\* set, no error) or the crash shape (status FAILED and error set, result,
\* history and screenshot untouched), never fields of both
C14_OneTerminalWrite ==
    /\ (pc \in BeforeReport \cup { "start", "validate", "rejected", "report", "write" })
          => db = CreatedRecord
    /\ db.writes <= 1
    /\ (db.writes = 0) => db = CreatedRecord
    /\ (db.writes = 1)
          => \/ /\ db.shape = "normal"
                /\ db.status \in { "COMPLETED", "FAILED" }
                /\ db.screenshot
                /\ db.error = ""
             \/ /\ db.shape = "crash"
                /\ db.status = "FAILED"
                /\ db.error # ""
                /\ db.result = CreatedRecord.result
                /\ db.history = CreatedRecord.history
                /\ db.screenshot = CreatedRecord.screenshot

\* the normal update raised and the crash update was applied in its place
C14_Witness ==
    pc = "done" /\ db.shape = "crash" /\ db.error = "update failed" /\ db.writes = 1

\* C15: an exception of the launch, the navigation, the snapshot, a page
\* wait or the report leads to the catch block and nowhere else; the update
\* issued there, once applied, leaves the record with status FAILED and
\* error equal to the message of the exception, with result, history and
\* screenshot as they were created; and handler ends with the browser
\* closed.  (When the table refuses that update too, nothing is written
\* and the second exception leaves handler, again with the browser closed.)
C15_CrashShape ==
    /\ (error # "") => pc \in { "crash", "close", "done", "closeThrow", "threw" }
    /\ (pc = "crash") => (error # "" /\ db = CreatedRecord)
    /\ (error # "" /\ pc \in { "close", "done" })
          => db = [CreatedRecord EXCEPT !.status = "FAILED", !.error = error,
                                        !.shape = "crash", !.writes = 1]
    /\ (pc \in { "closeThrow", "threw" }) => (error # "" /\ db = CreatedRecord)
    /\ (pc \in { "done", "threw" }) => browser # "open"

C15_Witness ==
    /\ pc = "done"
    /\ browser = "closed"
    /\ error = "evaluate failed"
    /\ db.status = "FAILED"
    /\ db.error = "evaluate failed"

\* C16: a decision without an action ends the loop in its iteration, with
\* no step executed and nothing appended to history, and the run is handed
\* to storage as FAILED with the result 'AI Brain Failure'.  (Fails: when
\* that iteration is the 20th, the step-cap test of line 204 replaces the
\* result.)
C16_DecisionFailure ==
    /\ (pc \in { "capcheck", "report", "write" } /\ step.action = "") => trace = << >>
    /\ (pc = "write" /\ step.action = "")
          => (testResult = "FAILED" /\ finalMessage = "AI Brain Failure")

\* C17: when the loop ends on a finish decision the result handed to
\* storage is the desc of that decision.  (Fails: a finish decided in the
\* 20th iteration has its result replaced by the step-cap test of line 204.)
C17_FinishResultIsDesc ==
    (pc = "write" /\ step.action = "finish") => finalMessage = step.desc

----------------------------------------------------------------------------
(* Properties of the oracle client and of the order of the loop *)

\* C18: one getNextStep call makes its first service call as attempt 1 and
\* never a 4th; attempt k+1 follows only a failed attempt k and the delay
\* after it; an attempt whose response parses returns at once; and the
\* third failure returns without a delay
C18_BoundedAttempts ==
    [][ /\ (pc \in { "oracle", "oracle2", "backoff", "backoff2" })
           => attempt \in 1..MaxAttempts
        /\ (pc = "snapshot" /\ pc' = "oracle") => attempt' = 1
        /\ (pc \in { "oracle", "oracle2" })
           => /\ reply' \in Replies
              /\ IF reply' = "ok"
                 THEN pc' = "branch" /\ step'.action # "null"
                 ELSE IF attempt < MaxAttempts
                 THEN pc' \in { "backoff", "backoff2" } /\ attempt' = attempt
                 ELSE pc' = "branch"
        /\ (pc \in { "backoff", "backoff2" })
           => /\ reply # "ok"
              /\ attempt < MaxAttempts
              /\ attempt' = attempt + 1
              /\ pc' \in { "oracle", "oracle2" }
        /\ (pc' \in { "oracle", "oracle2" } /\ attempt' > 1)
           => pc \in { "backoff", "backoff2" }
      ]_vars

C18_Witness ==
    pc = "oracle" /\ attempt = MaxAttempts /\ reply \in { "error", "nobrace", "badjson" }

\* the decisions of LongScript that are handed to executeStep
LongSteps ==
    LET IsStep(d) == d.action \notin { "wait", "finish", "" }
    IN  SelectSeq(LongScript, IsStep)

\* entry e records decision d
Records(e, d) ==
    e.tag \in { "SUCCESS", "FAILED" } /\ e.action = d.action /\ e.target = d.target

\* C19: whenever the oracle is consulted with n entries recorded so far,
\* the prompt holds the last min(5, n) of them in their order; the history
\* recorded is, in order, one entry for each step executed so far, and the
\* history written at the end of the run is all of them
C19_PromptWindow ==
    /\ (pc \in { "oracle", "oracle2", "backoff", "backoff2" })
          => LET n == Len(history)
                 m == IF n < 5 THEN n ELSE 5
             IN  prompt.history = [i \in 1..m |-> history[n - m + i]]
    /\ Len(history) <= Len(LongSteps)
    /\ \A i \in 1..Len(history) : Records(history[i], LongSteps[i])
    /\ (pc = "done")
          => /\ Len(db.history) = Len(LongSteps)
             /\ \A i \in 1..Len(LongSteps) : Records(db.history[i], LongSteps[i])

C19_Witness ==
    /\ pc = "oracle"
    /\ Len(history) = 7
    /\ prompt.history = << history[3], history[4], history[5], history[6], history[7] >>
    /\ history[1] # history[6]

\* C20: the operations of a run follow one another: a snapshot is begun
\* only from the loop head, which is reached only after the navigation or
\* a completed delay; the oracle is consulted only with the snapshot of
\* that iteration taken, and no step is executed while it is consulted;
\* the step executed is the decision just obtained, on the page that
\* snapshot was taken of; and the settle delay follows the execution and
\* precedes the loop head
C20_Sequential ==
    [][ /\ (pc' = "snapshot") => pc = "loop"
        /\ (pc' = "loop") => pc \in { "navigate", "settle", "waitDelay" }
        /\ (pc' = "oracle") => pc \in { "snapshot", "backoff" }
        /\ (pc = "snapshot" /\ pc' = "oracle")
           => (simplifiedHtml' = Snapshot(page) /\ page' = page)
        /\ (pc \in { "oracle", "oracle2", "backoff", "backoff2" })
           => /\ simplifiedHtml = Snapshot(page)
              /\ prompt.html = simplifiedHtml
              /\ step = NoStep
              /\ trace = << >>
              /\ UNCHANGED << page, history, simplifiedHtml >>
        /\ (pc' = "branch") => pc \in { "oracle", "oracle2" }
        /\ (pc' = "execute") => (pc = "branch" /\ UNCHANGED << step, page, simplifiedHtml >>)
        /\ (pc = "execute")
           => /\ simplifiedHtml = Snapshot(page)
              /\ pc' = "settle"
              /\ step' = step
              /\ \E env \in Envs :
                    /\ page' = executeStep(page, step, env).page
                    /\ trace' = executeStep(page, step, env).trace
              /\ Len(history') = Len(history) + 1
              /\ history'[Len(history')].action = step.action
        /\ (pc' = "settle") => pc = "execute"
        /\ (pc \in { "settle", "waitDelay" })
           => (pc' \in { "loop", "crash" } /\ page' = page)
      ]_vars

\* the second iteration consults the oracle on a snapshot of the page its
\* first iteration's step has changed
C20_Witness ==
    /\ pc = "oracle"
    /\ loopCount = 2
    /\ Len(history) = 1
    /\ page # LoginPage
    /\ simplifiedHtml = Snapshot(page)
    /\ simplifiedHtml # Snapshot(LoginPage)

----------------------------------------------------------------------------
(* Properties of the record written *)

\* C21: a record written with status FAILED carries a message: a result
\* that is not empty (normal shape) or an error message (crash shape).
\* (Fails: the result of a finish decision is its desc as the oracle gave
\* it, and a finish with success false and an empty desc is written as
\* FAILED with an empty result and no error.)
C21_FailedHasMessage ==
    (db.writes = 1 /\ db.status = "FAILED")
        => \/ (db.shape = "normal" /\ db.result # "")
           \/ (db.shape = "crash" /\ db.error # "")

\* C23: the status handed to storage and the status written are COMPLETED
\* or FAILED, never RUNNING nor the 'Running' the loop starts with; and
\* once a write has been applied handler only closes the browser: no
\* second write, no consultation of the oracle, no action on the page
C23_TerminalStatus ==
    /\ (pc = "write") => testResult \in { "COMPLETED", "FAILED" }
    /\ (db.writes >= 1)
          => /\ db.status \in { "COMPLETED", "FAILED" }
             /\ db.writes = 1
             /\ pc \in { "close", "done" }
             /\ prompt = NoPrompt
             /\ trace = << >>

\* the loop used up its 20 iterations without a decision that ends it
C23_Witness ==
    /\ pc = "done"
    /\ browser = "closed"
    /\ db.shape = "normal"
    /\ db.status = "FAILED"
    /\ db.result = "Maximum steps exceeded."
    /\ Len(db.history) = MaxSteps

\* C27: an iteration whose decision is click, fill or press hands it to
\* executeStep and appends exactly one entry, SUCCESS if and only if
\* executeStep returned without raising, naming the decision's action and
\* target; an iteration of wait, finish or an action-less decision appends
\* none; and while handler holds the history, nothing but that append
\* changes it
C27_HistoryAppendOnly ==
    [][ /\ (pc = "branch" /\ step.action \in { "click", "fill", "press" })
           => (pc' = "execute" /\ history' = history /\ step' = step)
        /\ (pc = "branch" /\ step.action \in { "wait", "finish", "" })
           => (pc' # "execute" /\ history' = history)
        /\ (pc = "execute")
           => \E env \in Envs :
                 LET r == executeStep(page, step, env)
                 IN  /\ page' = r.page
                     /\ trace' = r.trace
                     /\ history' = Append(history,
                                           [tag |-> IF r.raised THEN "FAILED" ELSE "SUCCESS",
                                            action |-> step.action,
                                            target |-> step.target])
        /\ (history' # history) => (pc = "execute" \/ pc' \in { "crash", "close" })
      ]_vars

\* a press that raised, after a fill that did not
C27_Witness ==
    /\ pc = "settle"
    /\ history = << [tag |-> "SUCCESS", action |-> "fill", target |-> sUser],
                    [tag |-> "FAILED", action |-> "press", target |-> E] >>

----------------------------------------------------------------------------
(* Properties of executeStep with the raising calls known *)

\* a click or fill step was executed on a target that resolves
Resolved(action) ==
    /\ out.op = "step"
    /\ out.step.action = action
    /\ findBestLocator(out.before, out.step.target) # 0

\* C24: a click on a target that resolves tries the ordinary click first,
\* the forced click if and only if the ordinary one raised, the
\* script-level click if and only if both raised, nothing after the first
\* that succeeds, and raises if and only if all three raised
C24_ClickEscalation ==
    Resolved("click")
        => LET chain == << "click", "forceClick", "jsClick" >>
               e == out.env
           IN  /\ Len(trace) \in 1..3
               /\ trace = SubSeq(chain, 1, Len(trace))
               /\ (Len(trace) >= 2) <=> e.t1
               /\ (Len(trace) = 3) <=> (e.t1 /\ e.t2)
               /\ out.raised <=> (e.t1 /\ e.t2 /\ e.t3)

\* the forced click succeeded: the script-level click, which would have
\* raised, is not tried
C24_Witness ==
    /\ Resolved("click")
    /\ trace = << "click", "forceClick" >>
    /\ out.env.t3
    /\ ~out.raised

\* C25: a fill on a target that resolves tries the ordinary fill, the
\* forced fill and the direct assignment, each only after the one before
\* raised; when one of them succeeded the input event is dispatched next
\* and, once that dispatch has returned, Tab is pressed; when all three
\* raised neither follows
C25_FillEscalation ==
    Resolved("fill")
        => LET chain == << "fill", "forceFill", "jsFill" >>
               e == out.env
               k == IF ~e.t1 THEN 1 ELSE IF ~e.t2 THEN 2 ELSE 3
               rest == SubSeq(trace, k + 1, Len(trace))
           IN  /\ Len(trace) >= k
               /\ SubSeq(trace, 1, k) = SubSeq(chain, 1, k)
               /\ rest = IF e.t1 /\ e.t2 /\ e.t3 THEN << >>
                         ELSE IF e.post THEN << "inputEvent" >>
                         ELSE << "inputEvent", "Tab" >>

C25_Witness ==
    /\ Resolved("fill")
    /\ trace = << "fill", "forceFill", "inputEvent", "Tab" >>
    /\ out.env.t3
    /\ ~out.raised

\* C26: the entry pushed for a click or fill on a target that resolves is
\* FAILED exactly when the script-level strategy raised (after the other
\* two), and SUCCESS whenever one of the three succeeded.  (Fails: the
\* input event and the Tab key of lines 317-320 are outside the try
\* blocks, so a fill that succeeded is recorded FAILED when one of them
\* raises.)
C26_FailedOnlyByLastTier ==
    (Resolved("click") \/ Resolved("fill"))
        => (history[Len(history)].tag = "FAILED"
              <=> (out.env.t1 /\ out.env.t2 /\ out.env.t3))

----------------------------------------------------------------------------
(* Properties of the snapshot lines *)

LineFields == << "id", "name", "type", "text", "placeholder", "value" >>

FieldPos(f) == CHOOSE k \in 1..Len(LineFields) : LineFields[k] = f

\* what a line shows of an element for one field: the attribute, and for
\* the text the visible text with its white space collapsed and trimmed,
\* cut to 50 characters
FieldValue(el, f) ==
    CASE f = "id" -> el.id
      [] f = "name" -> el.name
      [] f = "type" -> el.type
      [] f = "placeholder" -> el.placeholder
      [] f = "value" -> el.value
      [] f = "text" -> LET t == Trim(CollapseSpaces(el.text))
                       IN  IF Len(t) <= 50 THEN t ELSE SubSeq(t, 1, 50)

\* C29: a snapshot line shows the tag of its element and then, in the
\* order id, name, type, text, placeholder, value, exactly the fields that
\* are not empty, each with the element's value, the text being at most
\* 50 characters; the lines are in document order, at most one for an
\* element, only for interactive elements, and one for every interactive
\* element that is visible
C29_LineFormat ==
    (out.op = "snapshot") =>
        LET L == out.lines
        IN  /\ \A i \in 1..Len(L) :
                  LET el == page[L[i].index]
                      A == L[i].line.attrs
                  IN  /\ L[i].index \in 1..Len(page)
                      /\ Interactive(el)
                      /\ L[i].line.tag = el.tag
                      /\ \A a \in 1..Len(A) :
                            /\ \E k \in 1..Len(LineFields) : LineFields[k] = A[a][1]
                            /\ A[a][2] = FieldValue(el, A[a][1])
                            /\ A[a][2] # E
                            /\ (a > 1) => FieldPos(A[a - 1][1]) < FieldPos(A[a][1])
                      /\ \A k \in 1..Len(LineFields) :
                            (FieldValue(el, LineFields[k]) # E)
                               => \E a \in 1..Len(A) : A[a][1] = LineFields[k]
                      /\ \A a \in 1..Len(A) : A[a][1] = "text" => Len(A[a][2]) <= 50
            /\ \A i \in 1..(Len(L) - 1) : L[i].index < L[i + 1].index
            /\ \A j \in 1..Len(page) :
                  (Interactive(page[j]) /\ ~Invisible(page[j]))
                     => \E i \in 1..Len(L) : L[i].index = j

\* a button with a text of 52 characters before an input with every field
C29_Witness ==
    /\ out.op = "snapshot"
    /\ Len(page) = 2
    /\ page[1].text = sLong
    /\ Len(out.lines) = 2
    /\ out.lines[1].line = [tag |-> "button", attrs |-> << << "text", SubSeq(sLong, 1, 50) >> >>]
    /\ out.lines[2].line =
          [tag |-> "input",
           attrs |-> << << "id", sOk >>, << "name", sUser >>, << "type", sPassword >>,
                        << "placeholder", sOkGo >>, << "value", sOld >> >>]

----------------------------------------------------------------------------
(* Properties of the parsing of a response *)

BraceFree(s) == \A i \in 1..Len(s) : s[i] \notin { "{", "}" }

\* C28: a response that is one JSON object between two stretches of text
\* without braces is parsed, on the first attempt, to that object; a
\* response without "{" or without "}" is a failed attempt; and whenever
\* the first "{" comes before the last "}", what is parsed is the text
\* from the one to the other
C28_BraceWindow ==
    (out.op = "parse")
        => LET t == out.text
               Opens == { i \in 1..Len(t) : t[i] = "{" }
               Closes == { i \in 1..Len(t) : t[i] = "}" }
           IN  /\ \A i \in 1..Len(t), j \in 1..Len(t) :
                     (/\ i < j
                      /\ BraceFree(SubSeq(t, 1, i - 1))
                      /\ BraceFree(SubSeq(t, j + 1, Len(t)))
                      /\ IsJsonObject(SubSeq(t, i, j)))
                        => (/\ attempt = 1
                            /\ out.result = [kind |-> "ok", value |-> SubSeq(t, i, j)])
               /\ (Opens = {} \/ Closes = {})
                     => (out.result.kind = "nobrace" /\ reply # "ok")
               /\ \A i \in Opens, j \in Closes :
                     (/\ \A k \in Opens : i <= k
                      /\ \A k \in Closes : k <= j
                      /\ i < j
                      /\ out.result.kind = "ok")
                        => out.result.value = SubSeq(t, i, j)

C28_Witness ==
    /\ out.op = "parse"
    /\ out.text = << "x", "{", "m", "}", "x" >>
    /\ out.result = [kind |-> "ok", value |-> << "{", "m", "}" >>]

----------------------------------------------------------------------------
(* Properties of cleanupEnvironment *)

----------------------------------------------------------------------------
(* Properties of the step budget *)

OnlyWaits(sc) == \A i \in 1..Len(sc) : sc[i].action = "wait"

\* C31: the history is never longer than the count of iterations, which
\* never exceeds 20; the loop ends before its 20th iteration only by a
\* finish or a decision without action; the text-generation service has
\* been called at most three times for each iteration begun, so at most
\* 60 times; and a run whose decisions are all wait is stored FAILED with
\* the step-cap message and an empty history after 20 iterations
C31_StepBudget ==
    /\ Len(history) <= loopCount
    /\ loopCount <= 20
    /\ (loopCount > 0) => out.n <= 3 * loopCount
    /\ out.n <= 60
    /\ (pc = "capcheck" /\ loopCount < 20) => step.action \in { "finish", "" }
    /\ (pc = "write" /\ OnlyWaits(out.script))
          => loopCount = 20 /\ history = << >> /\ testResult = "FAILED"
    /\ (pc = "done" /\ OnlyWaits(out.script))
          => /\ db.status = "FAILED"
             /\ db.result = "Maximum steps exceeded."
             /\ db.history = << >>
             /\ out.n >= 20

\* a run of 20 wait decisions, each obtained at the third attempt
C31_Witness ==
    /\ pc = "done"
    /\ OnlyWaits(out.script)
    /\ out.n = 60
    /\ db.status = "FAILED"
    /\ db.history = << >>

----------------------------------------------------------------------------
(* Properties of the report phase *)

\* C32: an exception of the screenshot, the upload, the signing or the
\* normal update leads to the catch block with nothing written, whatever
\* status the loop had determined; the update issued there, once applied,
\* leaves status FAILED and the message of the exception and neither
\* result nor history nor screenshot; and a record turns COMPLETED only by
\* the normal update of a run whose loop determined COMPLETED and whose
\* report raised nothing
C32_ReportFailure ==
    [][ /\ (pc \in { "report", "write" } /\ pc' # (IF pc = "report" THEN "write" ELSE "close"))
              => /\ pc' = "crash"
                 /\ error' = (IF pc = "report" THEN "report failed" ELSE "update failed")
                 /\ db' = CreatedRecord
        /\ (pc = "crash" /\ db' # db)
              => db' = [CreatedRecord EXCEPT !.status = "FAILED", !.error = error,
                                             !.shape = "crash", !.writes = 1]
        /\ (error' \in { "report failed", "update failed" })
              => /\ db'.status # "COMPLETED"
                 /\ db'.history = << >>
                 /\ db'.result = ""
                 /\ ~db'.screenshot
        /\ (db'.status = "COMPLETED" /\ db.status # "COMPLETED")
              => /\ pc = "write" /\ pc' = "close"
                 /\ testResult = "COMPLETED"
                 /\ error = ""
                 /\ db' = [CreatedRecord EXCEPT !.status = "COMPLETED",
                                                !.result = finalMessage,
                                                !.history = history,
                                                !.screenshot = TRUE,
                                                !.shape = "normal", !.writes = 1] ]_vars

\* the login scenario reached its finish with success, the normal update
\* raised, and the record holds the crash shape without the three steps
C32_Witness ==
    /\ out.script = LoginScript
    /\ pc = "done"
    /\ error = "update failed"
    /\ db.status = "FAILED"
    /\ db.error = "update failed"
    /\ db.history = << >>

----------------------------------------------------------------------------
(* Properties of a decision with an action the runner does not know *)

KnownActions == { "click", "fill", "press", "wait", "finish" }

Unknown(st) == st.action # "" /\ st.action \notin KnownActions

\* C33: a decision whose action is not empty and is none of click, fill,
\* press, wait, finish goes to executeStep, which queries no locator,
\* touches nothing of the page and raises nothing; the history gets the
\* entry SUCCESS with the action and the target; status, message and
\* record stay as they are, and after the wait of line 201 the loop goes
\* on to its next iteration
C33_UnknownAction ==
    [][ /\ (pc = "branch" /\ Unknown(step))
              => /\ pc' = "execute"
                 /\ UNCHANGED << page, history, testResult, finalMessage, db >>
        /\ (pc = "execute" /\ Unknown(step))
              => /\ pc' = "settle"
                 /\ page' = page
                 /\ trace' = << >>
                 /\ history' = Append(history, [tag |-> "SUCCESS", action |-> step.action,
                                                target |-> step.target])
                 /\ UNCHANGED << testResult, finalMessage, db >>
        /\ (pc = "settle" /\ Unknown(step))
              => /\ pc' \in { "loop", "crash" }
                 /\ (pc' = "loop")
                       => /\ testResult' = "Running"
                          /\ loopCount < MAX_LOOPS
                          /\ UNCHANGED << page, history, loopCount, db >>
        /\ (pc = "loop" /\ loopCount < MAX_LOOPS) => pc' = "snapshot" ]_vars

\* three such decisions in a row, then finish: the page is as it was and
\* the record holds three SUCCESS entries
C33_Witness ==
    /\ out.script = UnknownScript
    /\ pc = "done"
    /\ page = LoginPage
    /\ db.status = "COMPLETED"
    /\ db.history = << [tag |-> "SUCCESS", action |-> "hover", target |-> sUser],
                       [tag |-> "SUCCESS", action |-> "Click", target |-> sGhost],
                       [tag |-> "SUCCESS", action |-> "scroll", target |-> E] >>

----------------------------------------------------------------------------
(* Properties of the run record across the two functions *)

\* C34: the record is created with status RUNNING before the runner is
\* invoked, and once the runner's terminal update has been applied, the
\* record getTestRun reads for the run holds COMPLETED or FAILED.  (Fails:
\* the runner takes the table from TABLE_NAME, which the stack does not
\* set, so its update goes to the table named TestRuns and the record
\* startTestRun created stays RUNNING.)
C34_TerminalWriteLands ==
    (out.op = "system")
        => /\ (out.runner # "none")
                 => out.tables[TEST_RUNS_TABLE_NAME].status # "none"
           /\ (pc = "created") => out.tables[TEST_RUNS_TABLE_NAME].status = "RUNNING"
           /\ (out.runner = "done")
                 => out.tables[TEST_RUNS_TABLE_NAME].status \in { "COMPLETED", "FAILED" }

----------------------------------------------------------------------------
(* Properties of the test definitions and their schedules *)

\* C35: as long as no call of the scheduler has raised, the schedule named
\* test-<id> exists exactly when the definition is stored with isScheduled
\* true, and a stored definition with isScheduled true has a
\* scheduleInterval and a scheduleName.  (Fails: updateTestDefinition does
\* not ask for an interval as createTestDefinition does, so isScheduled
\* true on a definition without interval is stored with no schedule
\* created.)
C35_ScheduleMatchesDefinition ==
    (out.op = "definitions" /\ ~out.raised)
        => /\ (out.schedule # "") <=> (out.item.exists /\ out.item.isScheduled)
           /\ (out.item.exists /\ out.item.isScheduled)
                 => (out.item.scheduleInterval # "" /\ out.item.scheduleName # "")

----------------------------------------------------------------------------
(* Properties of the call of getNextStep *)

\* C36: the second call of getNextStep in the handler's catch block
\* (line 170) is never made and no run ends by an exception of
\* getNextStep; while getNextStep is running the iteration has no
\* decision yet, and when it has returned the iteration has one, so each
\* iteration that reaches line 167 calls getNextStep once
C36_OneCallPerIteration ==
    /\ pc \notin { "oracle2", "backoff2" }
    /\ error # "AI failed"
    /\ (pc \in { "oracle", "backoff" })
          => (step = NoStep /\ attempt \in 1..3 /\ loopCount \in 1..MAX_LOOPS)
    /\ (pc = "branch") => (step # NoStep /\ attempt = 0)
    /\ (pc \in { "execute", "waitDelay", "settle" }) => (step # NoStep /\ attempt = 0)

\* three failed attempts ended in the wait decision, not in an exception
C36_Witness ==
    /\ pc = "branch"
    /\ step = WaitStep
    /\ reply \in { "error", "nobrace", "badjson" }
    /\ loopCount = 2

----------------------------------------------------------------------------
(* Properties of the input field outcome *)

C30_Idempotent ==
    (pc = "cleanedTwice") => /\ host.procs = out.found.procs
                             /\ host.tmp = out.found.tmp

\* two runs on a host where the first killed a process and removed an entry
\* and the second met a browser process it may not kill
C30_Witness ==
    /\ pc = "cleanedTwice"
    /\ out.first.procs # out.found.procs
    /\ out.first.tmp # out.found.tmp
    /\ \E p \in host.procs : p \in Targeted(host) /\ ~p.perm
    /\ host.tmp # {}

====
